---- MODULE Spec2Model ----
(***************************************************************************)
(* Release-notes contributor update tools: the mention substitution, the   *)
(* update run, the backups on disk and the restore tool.                   *)
(*                                                                         *)
(* A text is a sequence of one-character strings.  A username mapping is   *)
(* the sequence of <<old, new>> pairs that Object.entries yields.          *)
(***************************************************************************)
EXTENDS Integers, Sequences, FiniteSets, TLC

(***************************************************************************)
(* Bounds of the substitution inputs.                                      *)
(***************************************************************************)
MaxLen == 4
MaxOld == 1
MaxNew == 3
MaxMap == 2

\* The absent body (null): `!body` is true for it and for the empty text.
Null == <<"NULL">>

HandleChars == {"a", "b", "-"}
TextChars == {"@", "a", "b", "-", " "}

\* \w of the regular expression, within the characters of the model.
IsWordChar(c) == c \in {"a", "b"}

SeqsUpTo(S, n) == UNION {[1..k -> S] : k \in 0..n}

\* An account handle: letters, digits and single hyphens, no hyphen at either end.
IsHandle(h) ==
    /\ Len(h) >= 1
    /\ h[1] # "-"
    /\ h[Len(h)] # "-"
    /\ \A i \in 1..(Len(h) - 1) : ~(h[i] = "-" /\ h[i + 1] = "-")

HandlesUpTo(n) == {h \in SeqsUpTo(HandleChars, n) : IsHandle(h)}

Texts == SeqsUpTo(TextChars, MaxLen)

MapEntries == HandlesUpTo(MaxOld) \X HandlesUpTo(MaxNew)

\* The mappings a JSON object can hold: its keys are distinct.
Mappings ==
    {m \in SeqsUpTo(MapEntries, MaxMap) :
        \A i, j \in 1..Len(m) : i # j => m[i][1] # m[j][1]}

(***************************************************************************)
(* updateUsernamesInReleaseNotes                                           *)
(***************************************************************************)

\* Does t occur in s starting at position i (1-based)?
OccursAt(s, i, t) ==
    /\ i >= 1
    /\ i + Len(t) - 1 <= Len(s)
    /\ \A k \in 1..Len(t) : s[i + k - 1] = t[k]

\* newUsername.split('-').slice(-1)[0]: what follows the last hyphen.
RECURSIVE LastSegmentFrom(_, _)
LastSegmentFrom(new, i) ==
    IF i = 0 THEN new
    ELSE IF new[i] = "-" THEN SubSeq(new, i + 1, Len(new))
    ELSE LastSegmentFrom(new, i - 1)

LastSegment(new) == LastSegmentFrom(new, Len(new))

\* \b between positions p and p + 1 of s.
WordBoundary(s, p) ==
    LET before == p >= 1 /\ p <= Len(s) /\ IsWordChar(s[p])
        after == p + 1 >= 1 /\ p + 1 <= Len(s) /\ IsWordChar(s[p + 1])
    IN before # after

\* A pattern without the negative lookahead.
GuardNone(s, p, new) == TRUE

\* (?!-seg): the text after position p does not start with "-" seg.
Guard(s, p, new) == ~OccursAt(s, p + 1, <<"-">> \o LastSegment(new))

\* A pattern without the leading @.
MentionBare(old) == old

\* The literal start of the pattern: @ and the old handle.
Mention(old) == <<"@">> \o old

\* The pattern `@old(?!-seg)\b` matches at position i of s.
MatchAt(s, i, old, new) ==
    LET pat == Mention(old)
        e == i + Len(pat) - 1
    IN /\ Len(pat) >= 1
       /\ OccursAt(s, i, pat)
       /\ Guard(s, e, new)
       /\ WordBoundary(s, e)

\* s.replace(pattern, '@' + new) with the g flag, scanning from position i.
RECURSIVE ReplaceFrom(_, _, _, _)
ReplaceFrom(s, i, old, new) ==
    IF i > Len(s) THEN <<>>
    ELSE IF MatchAt(s, i, old, new)
         THEN (<<"@">> \o new) \o ReplaceFrom(s, i + Len(Mention(old)), old, new)
         ELSE <<s[i]>> \o ReplaceFrom(s, i + 1, old, new)

ReplaceEntry(s, old, new) == ReplaceFrom(s, 1, old, new)

RECURSIVE ApplyEntries(_, _, _)
ApplyEntries(s, mapping, k) ==
    IF k > Len(mapping) THEN s
    ELSE ApplyEntries(ReplaceEntry(s, mapping[k][1], mapping[k][2]), mapping, k + 1)

updateUsernamesInReleaseNotes(body, usernameMapping) ==
    IF body = Null \/ body = <<>> THEN body
    ELSE ApplyEntries(body, usernameMapping, 1)

(***************************************************************************)
(* The substitution applied to bounded inputs, and applied again to its    *)
(* own result.                                                             *)
(***************************************************************************)
VARIABLES subText, subMap, subOut, subAgain, subPhase

subVars == <<subText, subMap, subOut, subAgain, subPhase>>


(***************************************************************************)
(* The environment of the tools: the remote provider, the configuration    *)
(* and the backup tree on disk.                                            *)
(***************************************************************************)
MaxWhitelist == 2

\* per_page of listReleases.
PerPage == 100

GITHUB_OWNER == "acme"

\* The repositories of the owner on the remote, by canonical name.
RemoteRepos == {"widgets", "gadgets"}

\* The names a whitelist may hold.  The remote looks a repository up without
\* regard to case and answers with its canonical name.
WhitelistNames == {"widgets", "Widgets", "gadgets"}

Canon(name) == IF name = "Widgets" THEN "widgets" ELSE name

Whitelists == SeqsUpTo(WhitelistNames, MaxWhitelist)

RunBodies == {<<"@", "a">>, <<"a">>, Null}

RunMappings ==
    { << <<(<<"a">>), (<<"b">>)>> >>,
      << <<(<<"a">>), (<<"a", "-", "b">>)>> >> }

Release(id, tag, body) == [id |-> id, tag_name |-> tag, body |-> body]

\* The releases the remote holds when the tools first run: widgets has two
\* releases, gadgets has one or none.
InitialRemotes ==
    {[r \in RemoteRepos |->
        IF r = "widgets"
        THEN <<Release(1, "v1", b1), Release(2, "v2", b2)>>
        ELSE g] :
     b1 \in RunBodies, b2 \in RunBodies,
     g \in {<<Release(3, "v1", <<"@", "a">>)>>, <<Release(3, "v1", <<"a">>)>>, <<>>}}

NoFile == [root |-> "", owner |-> "", repo |-> "", ts |-> 0]

\* The value of indexFile while ./backups/backup-index.json does not exist.
NoIndex == <<[owner |-> "", repo |-> "", backup_files |-> <<>>]>>

\* The value of indexFile while ./backups/backup-index.json is a file of 0
\* bytes, which is what fs.writeFileSync leaves when it has opened the file and
\* cannot write it.
EmptyIndex == <<[owner |-> "", repo |-> "0 bytes", backup_files |-> <<>>]>>

\* The value of indexFile while ./backups/backup-index.json is a JSON document
\* without the key repositories.
IndexWithoutKey == <<[owner |-> "", repo |-> "{}", backup_files |-> <<>>]>>

VARIABLES
    whitelist,        \* REPOSITORY_WHITELIST
    mapping,          \* USERNAME_MAPPING
    remote,           \* canonical repository name -> its releases on the remote
    disk,             \* the backup files on disk
    dirs,             \* the directories of the backup trees on disk
    indexFile,        \* ./backups/backup-index.json: its repositories list, or NoIndex,
                      \* EmptyIndex, IndexWithoutKey
    clock,            \* the time (Date), advanced by the delays
    calls,            \* the remote calls of the current tool run, in order
    run,              \* the number of tool runs started
    pc,               \* where the update run stands
    wlIndex,          \* getWhitelistedRepositories: index of the next whitelist entry
    verifiedRepos,    \* getWhitelistedRepositories: verifiedRepos
    repoIndex,        \* main: index of the repository in process
    releases,         \* processRepositoryReleases: releases
    backupFile,       \* processRepositoryReleases: backupFile
    relIndex,         \* processRepositoryReleases: index of the next release
    updatedCount,     \* processRepositoryReleases: updatedCount
    totalProcessed,   \* main: totalProcessed
    totalUpdated,     \* main: totalUpdated
    totalErrors,      \* main: totalErrors
    indexBuilt,       \* the number of calls of createBackupIndex in the run
    indexCreated,     \* createBackupIndex: whether its latest call of the run
                      \* returned the path of the index (it returns null when
                      \* the write fails)
    rpc,              \* where the restore tool stands
    availableBackups, \* restore main: availableBackups
    choice,           \* restore main: the operator's answer to the selection prompt
    selectedIndex,    \* restore main: selectedIndex
    confirm,          \* restore main: the operator's answer to the confirmation prompt
    restoreFile,      \* restore main: backupFile
    backupData,       \* restoreRepositoryFromBackup: backupData.releases
    currentReleases,  \* restoreRepositoryFromBackup: currentReleases
    bkIndex,          \* restoreRepositoryFromBackup: index of the next backed-up release
    restoredCount,    \* restoreRepositoryFromBackup: restoredCount
    exitCode          \* the exit status of the restore tool

envVars == <<whitelist, mapping, remote, disk, dirs, indexFile, clock, calls, run>>
runVars == <<pc, wlIndex, verifiedRepos, repoIndex, releases, backupFile, relIndex,
             updatedCount,
             totalProcessed, totalUpdated, totalErrors, indexBuilt, indexCreated>>

restVars == <<rpc, availableBackups, choice, selectedIndex, confirm, restoreFile,
              backupData, currentReleases, bkIndex, restoredCount, exitCode>>

VARIABLES
    config,           \* the .env file, process.env, the two configuration files,
                      \* the preload and the paths the tools are started under
    lpc,              \* where the top level of the module of the update run or of
                      \* the test harness stands: the loading of the configuration,
                      \* "loaded" before the test that guards main(), "ended" when
                      \* the module ends without calling main()
    runExit,          \* the exit status of the update run
    before,           \* the remote as it was when the latest update run started
    tpc,              \* where the test harness stands
    needsUpdateCount, \* test main: needsUpdateCount
    testExit          \* the exit status of the test harness

cfgVars == <<config, lpc>>
testVars == <<tpc, needsUpdateCount, testExit>>

vars == <<subVars, envVars, runVars, restVars, cfgVars, runExit, before, testVars>>

\* parseInt of a text that does not start with a number.
NaN == [nan |-> TRUE, val |-> 0]

Num(n) == [nan |-> FALSE, val |-> n]

RestIdle ==
    /\ rpc = "idle"
    /\ availableBackups = <<>>
    /\ choice = <<>>
    /\ selectedIndex = NaN
    /\ confirm = <<>>
    /\ restoreFile = NoFile
    /\ backupData = <<>>
    /\ currentReleases = <<>>
    /\ bkIndex = 0
    /\ restoredCount = 0
    /\ exitCode = 0

SubIdle ==
    /\ subText = Null
    /\ subMap = <<>>
    /\ subOut = Null
    /\ subAgain = Null
    /\ subPhase = "idle"

RunIdle ==
    /\ pc = "idle"
    /\ wlIndex = 0
    /\ verifiedRepos = <<>>
    /\ repoIndex = 0
    /\ releases = <<>>
    /\ backupFile = NoFile
    /\ relIndex = 0
    /\ updatedCount = 0
    /\ totalProcessed = 0
    /\ totalUpdated = 0
    /\ totalErrors = 0
    /\ indexBuilt = 0
    /\ indexCreated = FALSE

EnvIdle ==
    /\ whitelist = <<>>
    /\ mapping = <<>>
    /\ remote = [r \in RemoteRepos |-> <<>>]
    /\ disk = {}
    /\ dirs = {}
    /\ indexFile = NoIndex
    /\ clock = 0
    /\ calls = <<>>
    /\ run = 0

\* A configuration file: absent, not JSON, JSON without the key, or JSON with
\* the key and its value.
File(state, content) == [state |-> state, content |-> content]

\* The three tools of the repository.
Tools == {"update", "restore", "test"}

\* The ways the tools may be started: each tool either under the very path
\* import.meta.url names, or under another one (through a symbolic link, or
\* from a directory whose name a file URL percent-encodes).
Starts(tools) == SUBSET tools

\* The configuration of a run whose loading succeeded with whitelist wl and
\* mapping m.  preload tells whether node was started with a module that
\* defines a global function loadEnv (node --import), which is the only way the
\* name loadEnv resolves in a module that does not import it.  direct holds
\* the tools that are started under the path import.meta.url names.
CfgOf(wl, m) ==
    [envFile |-> "ok", GITHUB_TOKEN |-> <<"x">>, GITHUB_OWNER |-> <<"x">>,
     mappingFile |-> File("ok", m), whitelistFile |-> File("ok", wl),
     preload |-> FALSE, direct |-> Tools]

\* The test that stands before main() at the foot of each tool:
\* import.meta.url === `file://${process.argv[1]}`.
IsMainModule(cfg, tool) == tool \in cfg.direct

\* The values process.env may hold for a variable once dotenv has run:
\* undefined, empty, blank, or a value.
EnvValues == {Null, <<>>, <<" ">>, <<"x">>}

\* String.prototype.trim.
RECURSIVE trim(_)
trim(s) ==
    IF s = <<>> THEN s
    ELSE IF Head(s) = " " THEN trim(Tail(s))
    ELSE IF s[Len(s)] = " " THEN trim(SubSeq(s, 1, Len(s) - 1))
    ELSE s

\* loadEnv: !value || value.trim() === ''.
IsMissing(value) == value = Null \/ value = <<>> \/ trim(value) = <<>>

\* loadEnv: TRUE when it returns, FALSE when it ends the process with status 1,
\* which it does when the .env file cannot be read and when a required variable
\* is missing.
loadEnv(cfg, requiredVars) ==
    /\ cfg.envFile = "ok"
    /\ \A varName \in requiredVars : ~IsMissing(cfg[varName])

Loaded(value) == [ok |-> TRUE, value |-> value]

\* The result of a loader that throws.
Thrown == [ok |-> FALSE, value |-> <<>>]

\* JSON.parse(fs.readFileSync(...)) followed by the read of the key: it throws
\* when there is no file and when the file is not JSON.
Readable(file) == file.state \in {"noKey", "ok"}

\* configData.key || default.
KeyOr(file, default) == IF file.state = "ok" THEN file.content ELSE default

\* loadUsernameMapping.
loadUsernameMapping(file) ==
    IF Readable(file) THEN Loaded(KeyOr(file, <<>>)) ELSE Thrown

\* A whitelist loader that answers a file it cannot read with the empty list.
WhitelistOrEmpty(file) ==
    IF Readable(file) THEN Loaded(KeyOr(file, <<>>)) ELSE Loaded(<<>>)

\* loadRepositoryWhitelist.
loadRepositoryWhitelist(file) ==
    IF Readable(file) THEN Loaded(KeyOr(file, <<>>)) ELSE Thrown

\* loadRepositoryWhitelistForTesting: the empty list when the file cannot be read.
loadRepositoryWhitelistForTesting(file) ==
    IF Readable(file) THEN Loaded(KeyOr(file, <<>>)) ELSE Loaded(<<>>)

\* No tool is running: the helper modules load no configuration of their own.
CfgIdle ==
    /\ config = CfgOf(<<>>, <<>>)
    /\ lpc = "env"
    /\ runExit = 0

TestIdle ==
    /\ tpc = "idle"
    /\ needsUpdateCount = 0
    /\ testExit = 0

InitSub ==
    /\ EnvIdle
    /\ RunIdle
    /\ RestIdle
    /\ CfgIdle
    /\ TestIdle
    /\ before = remote
    /\ subText \in Texts \cup {Null}
    /\ subMap \in Mappings
    /\ subOut = Null
    /\ subAgain = Null
    /\ subPhase = "input"

Substitute ==
    /\ subPhase = "input"
    /\ subOut' = updateUsernamesInReleaseNotes(subText, subMap)
    /\ subPhase' = "once"
    /\ UNCHANGED <<subText, subMap, subAgain, envVars, runVars, restVars,
                   cfgVars, testVars, runExit, before>>

Resubstitute ==
    /\ subPhase = "once"
    /\ subAgain' = updateUsernamesInReleaseNotes(subOut, subMap)
    /\ subPhase' = "twice"
    /\ UNCHANGED <<subText, subMap, subOut, envVars, runVars, restVars,
                   cfgVars, testVars, runExit, before>>

NextSub == Substitute \/ Resubstitute

SpecSub == InitSub /\ [][NextSub]_vars

(***************************************************************************)
(* The remote provider and the disk.                                       *)
(***************************************************************************)
Min(a, b) == IF a <= b THEN a ELSE b

Call(op, repo, id, body, result) ==
    [op |-> op, repo |-> repo, id |-> id, body |-> body, result |-> result]

\* octokit.rest.repos.listReleases with per_page: 100: the first page.
FirstPage(rels) == SubSeq(rels, 1, Min(Len(rels), PerPage))

\* The remote after an update that carries a tag along with the body.
SetBodyAndTag(rem, repo, id, body) ==
    [rem EXCEPT ![Canon(repo)] =
        [k \in 1..Len(@) |-> IF @[k].id = id
                              THEN [@[k] EXCEPT !.body = body, !.tag_name = "latest"]
                              ELSE @[k]]]

\* The remote after a successful update of the body of release id of repo.
SetBody(rem, repo, id, body) ==
    [rem EXCEPT ![Canon(repo)] =
        [k \in 1..Len(@) |-> IF @[k].id = id THEN [@[k] EXCEPT !.body = body] ELSE @[k]]]

\* The path of a backup file: root/owner/repo/releases-backup-<ts>.json.
Path(root, owner, repo, ts) == [root |-> root, owner |-> owner, repo |-> repo, ts |-> ts]

PathOf(f) == Path(f.root, f.owner, f.repo, f.ts)

\* fs.writeFileSync: a file of the same path is replaced.
WriteFile(d, f) == {g \in d : PathOf(g) # PathOf(f)} \cup {f}

\* generateBackupTimestamp: the time of the call, as the file name carries it.
generateBackupTimestamp(now) == now

\* A backup file whose releases have lost their body.
BackupRecordWithoutBody(owner, repo, rels, type, now, runNo) ==
    [root |-> IF type = "test" THEN "./test-backups" ELSE "./backups",
     owner |-> owner,
     repo |-> repo,
     ts |-> now,
     run |-> runNo,
     repository |-> <<owner, repo>>,
     total_releases |-> Len(rels),
     releases |-> [k \in 1..Len(rels) |->
                      Release(rels[k].id, rels[k].tag_name, Null)]]

\* createBackup: the file it writes.  The fields kept of each release are the
\* fields of the model's releases.
BackupRecord(owner, repo, rels, type, now, runNo) ==
    [root |-> IF type = "test" THEN "./test-backups" ELSE "./backups",
     owner |-> owner,
     repo |-> repo,
     ts |-> generateBackupTimestamp(now),
     run |-> runNo,
     repository |-> <<owner, repo>>,
     total_releases |-> Len(rels),
     releases |-> [k \in 1..Len(rels) |->
                      Release(rels[k].id, rels[k].tag_name, rels[k].body)]]

\* The file of 0 bytes that fs.writeFileSync leaves at the path of f when it
\* has opened the file and cannot write it.
EmptyFile(f) ==
    [root |-> f.root, owner |-> f.owner, repo |-> f.repo, ts |-> f.ts, run |-> f.run,
     repository |-> <<>>, total_releases |-> 0, releases |-> <<>>]

\* A file of 0 bytes, which JSON.parse rejects.
IsEmptyFile(f) == f.repository = <<>>

\* createBackup: what its call leaves of the file and what it returns.  The
\* file is written and its path returned; or writeFileSync opens the file, the
\* write fails and the file stays, of 0 bytes, in place of any file of that
\* path, and null is returned; or the file is not opened, or the directory was
\* not made, nothing changes and null is returned.
FileAfter(d, f, outcome) ==
    CASE outcome = "written" -> WriteFile(d, f)
      [] outcome = "truncated" -> WriteFile(d, EmptyFile(f))
      [] OTHER -> d

\* The result of loadBackupData for a file that cannot be read.
NoBackupData == [repository |-> <<>>, total_releases |-> 0, releases |-> <<>>]

\* loadBackupData: JSON.parse of the file at the path, which gives back the
\* document createBackup wrote; null when the file cannot be read or parsed.
loadBackupData(d, backupFilePath) ==
    IF \E f \in d : PathOf(f) = backupFilePath /\ ~IsEmptyFile(f)
    THEN LET f == CHOOSE g \in d : PathOf(g) = backupFilePath
         IN [repository |-> f.repository, total_releases |-> f.total_releases,
             releases |-> f.releases]
    ELSE NoBackupData

\* readdirSync of a repository's backup directory: the file names in ascending
\* order, which is the order of their timestamps.
RECURSIVE SortedTs(_)
SortedTs(S) ==
    IF S = {} THEN <<>>
    ELSE LET m == CHOOSE x \in S : \A y \in S : x <= y
         IN <<m>> \o SortedTs(S \ {m})

BackupFilesOf(d, owner, repo) ==
    LET ts == {f.ts : f \in {g \in d : /\ g.root = "./backups"
                                       /\ g.owner = owner /\ g.repo = repo}}
        sorted == SortedTs(ts)
    IN [k \in 1..Len(sorted) |-> Path("./backups", owner, repo, sorted[k])]

\* An owner under whose name an earlier configuration of the tool, with
\* another GITHUB_OWNER, made backups.
OtherOwner == "globex"

\* readdirSync of ./backups and of each owner's directory: the repository
\* directories, owner by owner, in name order.
ScanOrder ==
    << <<GITHUB_OWNER, "gadgets">>, <<GITHUB_OWNER, "widgets">>, <<OtherOwner, "widgets">> >>

\* A directory of a backup tree: the root (no owner, no repository), the
\* directory of an owner (no repository), or the directory of a repository.
DirOf(root, owner, repo) == [root |-> root, owner |-> owner, repo |-> repo]

\* The directory of the backups of a repository of GITHUB_OWNER: root/owner/repo.
Dir(root, repo) == DirOf(root, GITHUB_OWNER, repo)

\* The root of a backup tree (./backups or ./test-backups) and the directory of
\* an owner under it.
RootDir(root) == DirOf(root, "", "")

OwnerDirOf(root, owner) == DirOf(root, owner, "")

OwnerDir(root) == OwnerDirOf(root, GITHUB_OWNER)

\* The segments of root/owner/repo, in the order createBackupDirectory goes
\* through them.
Segments(root, repo) == <<RootDir(root), OwnerDir(root), Dir(root, repo)>>

\* The segments at which createBackupDirectory can fail: those it has to make;
\* 0 stands for no failure.
FailingSegments(ds, root, repo) ==
    {0} \cup {n \in 1..3 : Segments(root, repo)[n] \notin ds}

\* createBackupDirectory: the directories once it has gone through the
\* segments, making each that does not exist, all of them (failedAt = 0) or
\* those before the segment whose mkdirSync failed.
createBackupDirectory(ds, root, repo, failedAt) ==
    ds \cup {Segments(root, repo)[n] :
                n \in {m \in 1..3 : failedAt = 0 \/ m < failedAt}}

\* The outcomes of createBackup: the segment at which createBackupDirectory
\* fails, if any, and otherwise what becomes of the file.
BackupOutcomes(ds, root, repo) ==
    {<<n, IF n = 0 THEN o ELSE "noDir">> :
        n \in FailingSegments(ds, root, repo), o \in {"written", "truncated", "noFile"}}

\* The name of the index file in ./backups.
IndexName == "backup-index.json"

\* readdirSync('./backups'): the names of the owners' directories and, when
\* the index file exists, its name.
RootEntries(ds, index) ==
    {x.owner : x \in {y \in ds : y.root = "./backups" /\ y.owner # "" /\ y.repo = ""}}
        \cup (IF index = NoIndex THEN {} ELSE {IndexName})

\* fs.statSync(`./backups/${name}`).isDirectory().
IsDirectory(ds, name) == OwnerDirOf("./backups", name) \in ds

\* ownerDirs: the entries of ./backups that are directories and are not named
\* as the index file is.
OwnerDirs(ds, index) ==
    {name \in RootEntries(ds, index) : IsDirectory(ds, name) /\ name # IndexName}

\* The scan of ./backups: an entry for each repository directory of each
\* owner's directory, in order.
RECURSIVE ScanRepos(_, _, _, _)
ScanRepos(d, ds, index, k) ==
    IF k > Len(ScanOrder) THEN <<>>
    ELSE LET owner == ScanOrder[k][1]
             repo == ScanOrder[k][2]
             rest == ScanRepos(d, ds, index, k + 1)
         IN IF owner \in OwnerDirs(ds, index) /\ DirOf("./backups", owner, repo) \in ds
            THEN <<[owner |-> owner, repo |-> repo,
                    backup_files |-> BackupFilesOf(d, owner, repo)]>> \o rest
            ELSE rest

\* createBackupIndex: total_repositories, which goes up by one with every
\* repository directory whose entry is pushed.
RECURSIVE TotalRepositories(_, _, _)
TotalRepositories(ds, index, k) ==
    IF k > Len(ScanOrder) THEN 0
    ELSE (IF /\ ScanOrder[k][1] \in OwnerDirs(ds, index)
             /\ DirOf("./backups", ScanOrder[k][1], ScanOrder[k][2]) \in ds
          THEN 1 ELSE 0)
             + TotalRepositories(ds, index, k + 1)

\* An index that lists the repositories that have a backup file.
RECURSIVE DropEmpty(_)
DropEmpty(entries) ==
    IF entries = <<>> THEN <<>>
    ELSE (IF Head(entries).backup_files = <<>> THEN <<>> ELSE <<Head(entries)>>)
             \o DropEmpty(Tail(entries))

IndexOfBackedUp(d, ds, index) == DropEmpty(ScanRepos(d, ds, index, 1))

\* createBackupIndex: the repositories list of the index it writes over the
\* tree d, ds in which the index file stands as index.
createBackupIndex(d, ds, index) == ScanRepos(d, ds, index, 1)

\* fs.existsSync('./backups').
BackupsDirExists(ds) == RootDir("./backups") \in ds

(***************************************************************************)
(* The update run (update-release-contributors).                           *)
(***************************************************************************)
Init ==
    /\ SubIdle
    /\ RunIdle
    /\ RestIdle
    /\ TestIdle
    /\ whitelist \in Whitelists
    /\ mapping \in RunMappings
    /\ remote \in InitialRemotes
    /\ disk = {}
    /\ dirs = {}
    /\ indexFile = NoIndex
    /\ clock = 1
    /\ calls = <<>>
    /\ run = 0
    /\ config \in {[CfgOf(whitelist, mapping) EXCEPT !.direct = d] : d \in Starts({"update"})}
    /\ lpc = "loaded"
    /\ runExit = 0
    /\ before = remote

\* The names of every repository of the owner, whitelisted or not.
AllRepositories(wl) == <<"gadgets", "widgets">>

\* getWhitelistedRepositories: the names its loop goes through.
RepositoriesToVerify(wl) == wl

\* The exit status of a failure.
ExitFailure == 1

\* main: the exit status when it returns for want of a verified repository.
ExitOnNoRepositories == 0

\* main up to the first remote call: getWhitelistedRepositories on an empty
\* whitelist returns no repository and main returns.
StartRun ==
    /\ lpc = "loaded"
    /\ before' = remote
    /\ runExit' = IF RepositoriesToVerify(whitelist) = <<>> THEN ExitOnNoRepositories
                  ELSE runExit
    /\ run' = run + 1
    /\ calls' = <<>>
    /\ clock' = clock + 1
    /\ pc' = IF RepositoriesToVerify(whitelist) = <<>> THEN "done" ELSE "verify"
    /\ wlIndex' = 1
    /\ verifiedRepos' = <<>>
    /\ repoIndex' = 0
    /\ releases' = <<>>
    /\ backupFile' = NoFile
    /\ relIndex' = 0
    /\ updatedCount' = 0
    /\ totalProcessed' = 0
    /\ totalUpdated' = 0
    /\ totalErrors' = 0
    /\ indexBuilt' = 0
    /\ indexCreated' = FALSE
    /\ UNCHANGED <<subVars, cfgVars, testVars, restVars, whitelist, mapping, remote, disk, dirs, indexFile>>

\* The foot of the module: main() is called when the module is the one node
\* was started with.
MainStart ==
    /\ pc = "idle"
    /\ IsMainModule(config, "update")
    /\ StartRun

\* The foot of the module when the test fails: main() is not called and the
\* process ends, with status 0, having loaded the configuration and no more.
MainNotStarted ==
    /\ pc = "idle"
    /\ lpc = "loaded"
    /\ ~IsMainModule(config, "update")
    /\ lpc' = "ended"
    /\ UNCHANGED <<subVars, envVars, runVars, restVars, testVars, config, runExit, before>>

\* A verification that only a 404 fails.
VerifiedUnlessNotFound(result) == result # "notFound"

\* getWhitelistedRepositories: the repository is kept when octokit.rest.repos.get
\* answers; a 404 and any other error are caught and the entry is left out.
Verified(result) == result = "ok"

\* A verification that is made again when its call fails.
RetriedOnError(result) == result # "ok"

\* getWhitelistedRepositories: the catch inside the loop logs the failure and
\* the loop goes on to the next entry: no call is made a second time.
Retried(result) == FALSE

\* getWhitelistedRepositories: one iteration of the loop over the whitelist.
VerifyRepo ==
    /\ pc = "verify"
    /\ \E result \in {"ok", "notFound", "error"} :
        LET repoName == RepositoriesToVerify(whitelist)[wlIndex]
            verified == IF Verified(result)
                        THEN Append(verifiedRepos, Canon(repoName))
                        ELSE verifiedRepos
        IN /\ calls' = Append(calls, Call("get", repoName, 0, Null, result))
           /\ verifiedRepos' = verified
           /\ clock' = IF Verified(result) THEN clock + 1 ELSE clock
           /\ IF Retried(result)
              THEN /\ wlIndex' = wlIndex
                   /\ pc' = "verify"
                   /\ repoIndex' = repoIndex
              ELSE IF wlIndex < Len(RepositoriesToVerify(whitelist))
              THEN /\ wlIndex' = wlIndex + 1
                   /\ pc' = "verify"
                   /\ repoIndex' = repoIndex
              ELSE /\ wlIndex' = wlIndex
                   /\ pc' = IF verified = <<>> THEN "done" ELSE "list"
                   /\ repoIndex' = IF verified = <<>> THEN repoIndex ELSE 1
           /\ runExit' = IF /\ ~Retried(result)
                            /\ wlIndex = Len(RepositoriesToVerify(whitelist))
                            /\ verified = <<>>
                         THEN ExitOnNoRepositories
                         ELSE runExit
    /\ UNCHANGED <<subVars, cfgVars, testVars, before, restVars, whitelist, mapping, remote, disk, dirs, indexFile, run,
                   releases, backupFile, relIndex, updatedCount,
                   totalProcessed, totalUpdated, totalErrors, indexBuilt, indexCreated>>

\* main: a return that leaves out the final summary and the index.
ReturnFromMain == "done"

\* main: once the loop over the verified repositories is over, the final
\* summary and createBackupIndex follow.
AfterLastRepository == "summary"

\* main, after processRepositoryReleases has returned {processed, updated}: the
\* totals, and on to the next repository or to the summary.
FinishRepo(processed, updated) ==
    /\ totalProcessed' = totalProcessed + processed
    /\ totalUpdated' = totalUpdated + updated
    /\ totalErrors' = totalErrors
    /\ IF repoIndex < Len(verifiedRepos)
       THEN /\ repoIndex' = repoIndex + 1
            /\ pc' = "list"
       ELSE /\ repoIndex' = repoIndex
            /\ pc' = AfterLastRepository

\* processRepositoryReleases: its catch, reached by an error that leaves the
\* listing or the loop over the releases: the repository counts as an error
\* with nothing processed, and main goes on.
FailRepo ==
    /\ totalProcessed' = totalProcessed
    /\ totalUpdated' = totalUpdated
    /\ totalErrors' = totalErrors + 1
    /\ IF repoIndex < Len(verifiedRepos)
       THEN /\ repoIndex' = repoIndex + 1
            /\ pc' = "list"
       ELSE /\ repoIndex' = repoIndex
            /\ pc' = AfterLastRepository

\* The answer of a listing that passes the failure of its call on to its
\* caller, whose catch returns {processed: 0, updated: 0, error: true}; no
\* release has the identifier -1.
Failed == <<Release(-1, "", Null)>>

AllReleasesOrFailure(result, rels) == IF result = "ok" THEN FirstPage(rels) ELSE Failed

\* getAllReleases: the first page of the releases; its catch answers a failed
\* call with the empty list.
getAllReleases(result, rels) == IF result = "ok" THEN FirstPage(rels) ELSE <<>>

\* processRepositoryReleases: the call of getAllReleases and the test for no
\* release; an error of the listing would reach the catch.
ListReleases ==
    /\ pc = "list"
    /\ \E result \in {"ok", "error"} :
        LET repo == verifiedRepos[repoIndex]
            fetched == getAllReleases(result, remote[Canon(repo)])
        IN /\ calls' = Append(calls, Call("list", repo, 0, Null, result))
           /\ releases' = IF fetched = Failed THEN <<>> ELSE fetched
           /\ IF fetched = Failed
              THEN /\ FailRepo
                   /\ clock' = clock + 1
              ELSE IF Len(fetched) = 0
              THEN /\ FinishRepo(0, 0)
                   /\ clock' = clock + 1
              ELSE /\ pc' = "backup"
                   /\ clock' = clock
                   /\ UNCHANGED <<repoIndex, totalProcessed, totalUpdated, totalErrors>>
    /\ UNCHANGED <<subVars, cfgVars, testVars, runExit, before, restVars, whitelist, mapping, remote, disk, dirs, indexFile, run,
                   wlIndex, verifiedRepos, backupFile, relIndex, updatedCount,
                   indexBuilt, indexCreated>>

\* processRepositoryReleases: backupReleaseNotes, that is createBackup, which
\* makes the directory and then writes the file.  When either fails backupFile
\* is null; the loop over the releases follows in every case.
BackupReleases ==
    /\ pc = "backup"
    /\ LET repo == verifiedRepos[repoIndex]
           file == BackupRecord(GITHUB_OWNER, repo, releases, "release", clock, run)
       IN \E outcome \in BackupOutcomes(dirs, file.root, repo) :
           /\ dirs' = createBackupDirectory(dirs, file.root, repo, outcome[1])
           /\ disk' = FileAfter(disk, file, outcome[2])
           /\ backupFile' = IF outcome[2] = "written" THEN PathOf(file) ELSE NoFile
    /\ pc' = "update"
    /\ relIndex' = 1
    /\ updatedCount' = 0
    /\ UNCHANGED <<subVars, cfgVars, testVars, runExit, before, restVars, whitelist, mapping, remote, indexFile, clock, calls, run,
                   wlIndex, verifiedRepos, repoIndex, releases,
                   totalProcessed, totalUpdated, totalErrors, indexBuilt, indexCreated>>

\* A call whose failure is not caught where it is made.
CaughtWhenOk(result) == result = "ok"

\* updateRelease: the call is made inside try/catch, so that no outcome of the
\* call leaves updateRelease as an error.
Caught(result) == TRUE

\* updateRelease: the test that decides whether the update call is made.
NeedsUpdateAlways(updatedBody, body) == TRUE

NeedsUpdate(updatedBody, body) == updatedBody # body

\* An updateRelease that answers true whenever it made the call.
WasCalled(called, result) == called

\* updateRelease: true when the call was made and succeeded; false when the
\* body needs no change and when the call failed.
WasUpdated(called, result) == called /\ result = "ok"

\* processRepositoryReleases: one iteration of the loop over the releases, that
\* is one updateRelease and the delay; after the last, the result goes to main.
UpdateRelease ==
    /\ pc = "update"
    /\ LET repo == verifiedRepos[repoIndex]
           release == releases[relIndex]
           updatedBody == updateUsernamesInReleaseNotes(release.body, mapping)
       IN \E result \in {"ok", "error"} :
           LET called == NeedsUpdate(updatedBody, release.body)
               wasUpdated == WasUpdated(called, result)
               count == IF wasUpdated THEN updatedCount + 1 ELSE updatedCount
           IN /\ (~called => result = "ok")
              /\ calls' = IF called
                          THEN Append(calls,
                                   Call("update", repo, release.id, updatedBody, result))
                          ELSE calls
              /\ remote' = IF wasUpdated
                           THEN SetBody(remote, repo, release.id, updatedBody)
                           ELSE remote
              /\ updatedCount' = count
              /\ IF ~Caught(result)
                 THEN /\ relIndex' = relIndex
                      /\ FailRepo
                 ELSE IF relIndex < Len(releases)
                 THEN /\ relIndex' = relIndex + 1
                      /\ pc' = "update"
                      /\ UNCHANGED <<repoIndex, totalProcessed, totalUpdated,
                                     totalErrors>>
                 ELSE /\ relIndex' = relIndex
                      /\ FinishRepo(Len(releases), count)
    /\ clock' = clock + 1
    /\ UNCHANGED <<subVars, cfgVars, testVars, runExit, before, restVars, whitelist, mapping, disk, dirs, indexFile, run,
                   wlIndex, verifiedRepos, releases, backupFile, indexBuilt, indexCreated>>

\* createBackupIndex: what its call leaves of ./backups/backup-index.json.
\* The index is written; or writeFileSync opens the file, the write fails and
\* the file stays, of 0 bytes; or the scan throws or the file is not opened,
\* as it is not when ./backups does not exist, and nothing changes.  Every
\* failure is caught.
IndexAfter(d, ds, index, outcome) ==
    CASE outcome = "written" -> createBackupIndex(d, ds, index)
      [] outcome = "truncated" -> EmptyIndex
      [] OTHER -> index

IndexOutcomes(ds) ==
    IF BackupsDirExists(ds) THEN {"written", "truncated", "untouched"} ELSE {"untouched"}

\* main: the final summary and createBackupIndex, whose failure is caught.
BuildIndex ==
    /\ pc = "summary"
    /\ \E outcome \in IndexOutcomes(dirs) :
        /\ indexFile' = IndexAfter(disk, dirs, indexFile, outcome)
        /\ indexCreated' = (outcome = "written")
    /\ indexBuilt' = indexBuilt + 1
    /\ pc' = "done"
    /\ UNCHANGED <<subVars, cfgVars, testVars, runExit, before, restVars, whitelist, mapping, remote, disk, dirs, clock, calls, run,
                   wlIndex, verifiedRepos, repoIndex, releases, backupFile,
                   relIndex, updatedCount, totalProcessed, totalUpdated, totalErrors>>

Next ==
    \/ MainStart
    \/ MainNotStarted
    \/ VerifyRepo
    \/ ListReleases
    \/ BackupReleases
    \/ UpdateRelease
    \/ BuildIndex

Spec == Init /\ [][Next]_vars

(***************************************************************************)
(* The update run from the start of the process: the module's top level    *)
(* loads the configuration, then main runs.                                *)
(***************************************************************************)
\* The states a configuration file may be in, its value being one of values.
Files(values) ==
    {File("missing", <<>>), File("malformed", <<>>), File("noKey", <<>>)}
        \cup {File("ok", v) : v \in values}

Configs ==
    [envFile : {"ok", "missing"},
     GITHUB_TOKEN : EnvValues,
     GITHUB_OWNER : EnvValues,
     mappingFile : Files(RunMappings),
     whitelistFile : Files(Whitelists),
     preload : {FALSE},
     direct : {{}, Tools}]

InitLoad ==
    /\ SubIdle
    /\ RunIdle
    /\ RestIdle
    /\ TestIdle
    /\ config \in Configs
    /\ lpc = "env"
    /\ runExit = 0
    /\ whitelist = <<>>
    /\ mapping = <<>>
    /\ remote \in InitialRemotes
    /\ disk = {}
    /\ dirs = {}
    /\ indexFile = NoIndex
    /\ clock = 1
    /\ calls = <<>>
    /\ run = 0
    /\ before = remote

\* Top level: loadEnv(['GITHUB_TOKEN', 'GITHUB_OWNER']), which ends the process
\* with status 1 when it fails.
LoadEnv ==
    /\ lpc = "env"
    /\ IF loadEnv(config, {"GITHUB_TOKEN", "GITHUB_OWNER"})
       THEN lpc' = "mapping" /\ runExit' = runExit
       ELSE lpc' = "failed" /\ runExit' = 1
    /\ UNCHANGED <<subVars, envVars, runVars, restVars, testVars, config, before>>

\* Top level: loadUsernameMapping(), whose error nothing catches: the process
\* ends with status 1.
LoadMapping ==
    /\ lpc = "mapping"
    /\ LET loaded == loadUsernameMapping(config.mappingFile)
       IN IF loaded.ok
          THEN mapping' = loaded.value /\ lpc' = "whitelist" /\ runExit' = runExit
          ELSE mapping' = mapping /\ lpc' = "failed" /\ runExit' = 1
    /\ UNCHANGED <<subVars, runVars, restVars, testVars, config, before,
                   whitelist, remote, disk, dirs, indexFile, clock, calls, run>>

\* Top level: loadRepositoryWhitelist(), then initializeOctokit, which builds
\* the client without a call.
LoadWhitelist ==
    /\ lpc = "whitelist"
    /\ LET loaded == loadRepositoryWhitelist(config.whitelistFile)
       IN IF loaded.ok
          THEN whitelist' = loaded.value /\ lpc' = "loaded" /\ runExit' = runExit
          ELSE whitelist' = whitelist /\ lpc' = "failed" /\ runExit' = 1
    /\ UNCHANGED <<subVars, runVars, restVars, testVars, config, before,
                   mapping, remote, disk, dirs, indexFile, clock, calls, run>>

NextLoad ==
    \/ LoadEnv
    \/ LoadMapping
    \/ LoadWhitelist
    \/ Next

SpecLoad == InitLoad /\ [][NextLoad]_vars

\* The process goes on while it has a step to take: its steps are sequential
\* and each call, delay and file operation returns.
SpecLoadFair == SpecLoad /\ WF_vars(NextLoad)

(***************************************************************************)
(* The restore tool (restore-from-backup).                                 *)
(***************************************************************************)
MaxBackups == 2

\* The answers of the operator to the two prompts.
Choices ==
    {<<>>, <<"0">>, <<"1">>, <<"2">>, <<"3">>, <<"x">>, <<"1", "x">>,
     <<" ", "2">>, <<"-", "1">>, <<"1", "2">>}

ConfirmAnswers ==
    {<<"y", "e", "s">>, <<"y">>, <<"Y", "E", "S">>, <<"Y">>, <<"Y", "e", "s">>,
     <<"n", "o">>, <<"n">>, <<>>, <<"y", "e", "s", " ">>, <<"o", "k">>}

Digits == <<"0", "1", "2", "3", "4", "5", "6", "7", "8", "9">>

IsDigit(c) == \E d \in 1..10 : Digits[d] = c

DigitVal(c) == (CHOOSE d \in 1..10 : Digits[d] = c) - 1

\* The value of the digits of s from position k on, acc being the value so far.
RECURSIVE ParseDigits(_, _, _)
ParseDigits(s, k, acc) ==
    IF k <= Len(s) /\ IsDigit(s[k])
    THEN ParseDigits(s, k + 1, 10 * acc + DigitVal(s[k]))
    ELSE acc

RECURSIVE SkipBlanks(_, _)
SkipBlanks(s, k) == IF k <= Len(s) /\ s[k] = " " THEN SkipBlanks(s, k + 1) ELSE k

\* parseInt(s): leading blanks, a sign, then the leading digits; NaN without any.
parseInt(s) ==
    LET b == SkipBlanks(s, 1)
        signed == b <= Len(s) /\ s[b] \in {"-", "+"}
        d == IF signed THEN b + 1 ELSE b
    IN IF d <= Len(s) /\ IsDigit(s[d])
       THEN Num((IF signed /\ s[b] = "-" THEN -1 ELSE 1) * ParseDigits(s, d, 0))
       ELSE NaN

toLowerCase(s) ==
    [k \in 1..Len(s) |->
        CASE s[k] = "Y" -> "y"
          [] s[k] = "E" -> "e"
          [] s[k] = "S" -> "s"
          [] OTHER -> s[k]]

\* The answers the tool takes for a confirmation: any answer but "no".
ConfirmedUnlessNo(answer) == toLowerCase(answer) # <<"n", "o">>

\* main: the test of the confirmation answer.
Confirmed(answer) ==
    toLowerCase(answer) = <<"y", "e", "s">> \/ toLowerCase(answer) = <<"y">>

\* listAvailableBackups of the restore tool: the repositories of the index when
\* the index file exists, the scan of ./backups otherwise.
listAvailableBackups(d, ds, index) ==
    IF ~BackupsDirExists(ds) THEN <<>>
    ELSE IF index = EmptyIndex THEN <<>>
    ELSE IF index = IndexWithoutKey THEN <<>>
    ELSE IF index # NoIndex THEN index
    ELSE ScanRepos(d, ds, index, 1)

\* currentReleases.find(r => r.tag_name === tag): the position of the first
\* release with the tag, 0 when there is none.
FindByTag(rels, tag) ==
    LET M == {k \in 1..Len(rels) : rels[k].tag_name = tag}
    IN IF M = {} THEN 0 ELSE CHOOSE k \in M : \A m \in M : k <= m

\* The identifier recorded in the backup.
BackupId(currentRelease, backupRelease) == backupRelease.id

\* restoreRepositoryFromBackup: the release_id of the call is the live release's.
RestoreTargetId(currentRelease, backupRelease) == currentRelease.id

\* restoreRelease: the body of the call is the backed-up body.
RestoreBody(backupRelease) == backupRelease.body

\* A count that goes up with every attempt.
CountAttempted(count, wasRestored) == count + 1

\* restoreRepositoryFromBackup: if (wasRestored) restoredCount++.
CountRestored(count, wasRestored) == IF wasRestored THEN count + 1 ELSE count

\* The bodies of the releases in a backup taken earlier.
SnapBodies == {<<"@", "a">>, <<"a">>}

\* The backups of widgets that earlier runs may have left: for each of some
\* timestamps, a snapshot of its two releases.
WidgetsBackups ==
    UNION {
        {{[root |-> "./backups", owner |-> GITHUB_OWNER, repo |-> "widgets", ts |-> t,
           run |-> 0,
           repository |-> <<GITHUB_OWNER, "widgets">>, total_releases |-> 2,
           releases |-> <<Release(1, "v1", snap[t][1]), Release(2, "v2", snap[t][2])>>] :
              t \in T} :
         snap \in [T -> SnapBodies \X SnapBodies]} :
        T \in SUBSET (1..MaxBackups)}

GadgetsBackup ==
    [root |-> "./backups", owner |-> GITHUB_OWNER, repo |-> "gadgets", ts |-> 1, run |-> 0,
     repository |-> <<GITHUB_OWNER, "gadgets">>, total_releases |-> 1,
     releases |-> <<Release(3, "v1", <<"@", "a">>)>>]

\* The live releases when the restore tool runs: as backed up, with v1 deleted,
\* with v1 deleted and created again under a new identifier, or listed in the
\* other order.
LiveRemotes ==
    {[r \in RemoteRepos |-> IF r = "widgets" THEN live ELSE <<Release(3, "v1", <<"a">>)>>] :
        live \in {<<Release(1, "v1", <<"@", "b">>), Release(2, "v2", <<"a">>)>>,
                  <<Release(2, "v2", <<"a">>)>>,
                  <<Release(11, "v1", <<"@", "b">>), Release(2, "v2", <<"a">>)>>,
                  <<Release(2, "v2", <<"a">>), Release(1, "v1", <<"@", "b">>)>>}}

\* The files an index built before the newest backup knows.
Older(d) == {f \in d : \E g \in d : g.repo = f.repo /\ g.ts > f.ts}

\* The directories of ds and those above them.
WithParents(ds) ==
    ds \cup {RootDir(x.root) : x \in ds}
       \cup {OwnerDirOf(x.root, x.owner) : x \in {y \in ds : y.owner # ""}}

\* The configurations the restore tool may start in: as shipped, where nothing
\* defines loadEnv; and with loadEnv defined by a preload, the .env file
\* present or not and GITHUB_TOKEN of any value.
RestoreConfigs ==
    {[CfgOf(<<>>, <<>>) EXCEPT !.direct = d] : d \in Starts({"restore"})}
        \cup {[CfgOf(<<>>, <<>>) EXCEPT !.preload = TRUE, !.envFile = e, !.GITHUB_TOKEN = t,
                                        !.direct = d] :
                 e \in {"ok", "missing"}, t \in EnvValues, d \in Starts({"restore"})}

\* What earlier runs of the update tool may have left: backups of widgets, for
\* gadgets nothing, its directory, a backup or a backup of 0 bytes, a ./backups
\* without any repository directory, and an index that is absent, up to date,
\* older than the newest backup, of 0 bytes or without its key.
InitRestore ==
    /\ SubIdle
    /\ RunIdle
    /\ RestIdle
    /\ TestIdle
    /\ config \in RestoreConfigs
    /\ lpc = "env"
    /\ runExit = 0
    /\ whitelist = <<>>
    /\ mapping = <<>>
    /\ run = 0
    /\ calls = <<>>
    /\ clock = MaxBackups + 1
    /\ remote \in LiveRemotes
    /\ \E wb \in WidgetsBackups, g \in {"none", "dirOnly", "file", "emptyFile"},
          rootOnly \in BOOLEAN :
        /\ disk = wb \cup (CASE g = "file" -> {GadgetsBackup}
                             [] g = "emptyFile" -> {EmptyFile(GadgetsBackup)}
                             [] OTHER -> {})
        /\ dirs = WithParents((IF wb = {} THEN {} ELSE {Dir("./backups", "widgets")})
                      \cup (IF g = "none" THEN {} ELSE {Dir("./backups", "gadgets")}))
                      \cup (IF rootOnly THEN {RootDir("./backups")} ELSE {})
    /\ indexFile \in {NoIndex, createBackupIndex(disk, dirs, NoIndex),
                      createBackupIndex(Older(disk),
                          WithParents({x \in dirs : \E f \in Older(disk) : f.repo = x.repo}),
                          NoIndex),
                      EmptyIndex, IndexWithoutKey}
    /\ (indexFile # NoIndex => BackupsDirExists(dirs))
    /\ before = remote

\* The module's top level: loadEnv(['GITHUB_TOKEN']).  The module does not
\* import loadEnv: unless a preload defines it the call throws a
\* ReferenceError that nothing catches and the process ends with status 1;
\* when it is defined it ends the process with status 1 for a missing .env
\* file or token.  new Octokit makes no call.
RestoreLoad ==
    /\ rpc = "idle"
    /\ pc \in {"idle", "done"}
    /\ IF config.preload /\ loadEnv(config, {"GITHUB_TOKEN"})
       THEN rpc' = "main" /\ exitCode' = exitCode
       ELSE rpc' = "fatal" /\ exitCode' = ExitFailure
    /\ UNCHANGED <<subVars, cfgVars, testVars, runExit, before, runVars, envVars,
                   availableBackups, choice, selectedIndex, confirm, restoreFile,
                   backupData, currentReleases, bkIndex, restoredCount>>

\* The foot of the module when its test fails: main() is not called and the
\* process ends, with status 0, without a prompt.
RestoreNotStarted ==
    /\ rpc = "main"
    /\ ~IsMainModule(config, "restore")
    /\ rpc' = "ended"
    /\ UNCHANGED <<subVars, cfgVars, testVars, runExit, before, runVars, envVars,
                   availableBackups, choice, selectedIndex, confirm, restoreFile,
                   backupData, currentReleases, bkIndex, restoredCount, exitCode>>

\* The foot of the module and main up to the selection prompt.
RestoreStart ==
    /\ rpc = "main"
    /\ IsMainModule(config, "restore")
    /\ pc \in {"idle", "done"}
    /\ LET found == listAvailableBackups(disk, dirs, indexFile)
       IN /\ availableBackups' = found
          /\ rpc' = IF Len(found) = 0 THEN "done" ELSE "choose"
    /\ calls' = <<>>
    /\ run' = run + 1
    /\ UNCHANGED <<subVars, cfgVars, testVars, runExit, before, runVars, whitelist, mapping, remote, disk, dirs, indexFile,
                   clock, choice, selectedIndex, confirm, restoreFile, backupData,
                   currentReleases, bkIndex, restoredCount, exitCode>>

\* main: the answer to the selection prompt.  An index that is neither below 0
\* nor beyond the list passes the test; availableBackups[NaN] is undefined and
\* reading its owner throws, which main catches and exits on.
RestoreChoose ==
    /\ rpc = "choose"
    /\ \E answer \in Choices :
        LET n == parseInt(answer)
            index == IF n.nan THEN NaN ELSE Num(n.val - 1)
            invalid == ~index.nan /\ (index.val < 0 \/ index.val >= Len(availableBackups))
        IN /\ choice' = answer
           /\ selectedIndex' = index
           /\ rpc' = IF invalid THEN "done" ELSE IF index.nan THEN "fatal" ELSE "confirm"
           /\ exitCode' = IF ~invalid /\ index.nan THEN 1 ELSE exitCode
    /\ UNCHANGED <<subVars, cfgVars, testVars, runExit, before, runVars, envVars, availableBackups, confirm, restoreFile,
                   backupData, currentReleases, bkIndex, restoredCount>>

\* restoreRepositoryFromBackup: the releases of the backup file at a path; a
\* file that cannot be read or parsed (one of 0 bytes) takes it to its catch,
\* whose result main reports like that of a backup without releases.
ReadBackup(d, path) ==
    IF \E f \in d : PathOf(f) = path
    THEN (CHOOSE f \in d : PathOf(f) = path).releases
    ELSE <<>>

\* main: the answer to the confirmation prompt and, once confirmed, the choice
\* of backup_files[0] and restoreRepositoryFromBackup up to its list call.
RestoreConfirm ==
    /\ rpc = "confirm"
    /\ \E answer \in ConfirmAnswers :
        LET selectedBackup == availableBackups[selectedIndex.val + 1]
            files == selectedBackup.backup_files
            data == ReadBackup(disk, files[1])
        IN /\ confirm' = answer
           /\ IF ~Confirmed(answer)
              THEN /\ rpc' = "done"
                   /\ UNCHANGED <<restoreFile, backupData, exitCode>>
              ELSE IF Len(files) = 0
              THEN /\ rpc' = "fatal"
                   /\ exitCode' = 1
                   /\ UNCHANGED <<restoreFile, backupData>>
              ELSE /\ restoreFile' = files[1]
                   /\ backupData' = data
                   /\ rpc' = IF Len(data) = 0 THEN "done" ELSE "listing"
                   /\ exitCode' = exitCode
    /\ UNCHANGED <<subVars, cfgVars, testVars, runExit, before, runVars, envVars, availableBackups, choice, selectedIndex,
                   currentReleases, bkIndex, restoredCount>>

\* restoreRepositoryFromBackup: the list call; its failure ends the restore.
RestoreList ==
    /\ rpc = "listing"
    /\ \E result \in {"ok", "error"} :
        LET repo == availableBackups[selectedIndex.val + 1].repo
        IN /\ calls' = Append(calls, Call("list", repo, 0, Null, result))
           /\ currentReleases' = IF result = "ok" THEN FirstPage(remote[Canon(repo)])
                                 ELSE <<>>
           /\ rpc' = IF result = "ok" THEN "restoring" ELSE "done"
           /\ bkIndex' = IF result = "ok" THEN 1 ELSE bkIndex
    /\ restoredCount' = 0
    /\ UNCHANGED <<subVars, cfgVars, testVars, runExit, before, runVars, whitelist, mapping, remote, disk, dirs, indexFile,
                   clock, run, availableBackups, choice, selectedIndex, confirm,
                   restoreFile, backupData, exitCode>>

\* restoreRepositoryFromBackup: one iteration of the loop over the backed-up
\* releases, that is the search by tag and, on a match, restoreRelease.
RestoreRelease ==
    /\ rpc = "restoring"
    /\ LET repo == availableBackups[selectedIndex.val + 1].repo
           backupRelease == backupData[bkIndex]
           found == FindByTag(currentReleases, backupRelease.tag_name)
       IN \E result \in {"ok", "error"} :
           /\ (found = 0 => result = "ok")
           /\ IF found = 0
              THEN UNCHANGED <<calls, remote, restoredCount, clock>>
              ELSE LET id == RestoreTargetId(currentReleases[found], backupRelease)
                       body == RestoreBody(backupRelease)
                   IN /\ calls' = Append(calls, Call("update", repo, id, body, result))
                      /\ remote' = IF result = "ok" THEN SetBody(remote, repo, id, body)
                                   ELSE remote
                      /\ restoredCount' = CountRestored(restoredCount, result = "ok")
                      /\ clock' = clock + 1
    /\ IF bkIndex < Len(backupData)
       THEN bkIndex' = bkIndex + 1 /\ rpc' = "restoring"
       ELSE bkIndex' = bkIndex /\ rpc' = "done"
    /\ UNCHANGED <<subVars, cfgVars, testVars, runExit, before, runVars, whitelist, mapping, disk, dirs, indexFile, run,
                   availableBackups, choice, selectedIndex, confirm, restoreFile,
                   backupData, currentReleases, exitCode>>

NextRestore ==
    \/ RestoreLoad
    \/ RestoreNotStarted
    \/ RestoreStart
    \/ RestoreChoose
    \/ RestoreConfirm
    \/ RestoreList
    \/ RestoreRelease

SpecRestore == InitRestore /\ [][NextRestore]_vars

(***************************************************************************)
(* The test harness (test-single-repo).                                    *)
(***************************************************************************)
\* The backup type of createReleaseBackup.
TypeOfReleaseBackup == "release"

\* createTestBackup: createBackup(owner, repo, releases, {type: 'test'}).
TypeOfTestBackup == "test"

InitTest ==
    /\ SubIdle
    /\ RunIdle
    /\ RestIdle
    /\ TestIdle
    /\ config \in Configs
    /\ lpc = "env"
    /\ runExit = 0
    /\ whitelist = <<>>
    /\ mapping = <<>>
    /\ remote \in InitialRemotes
    /\ \E g \in BOOLEAN :
        /\ disk = (IF g THEN {GadgetsBackup} ELSE {})
        /\ dirs = (IF g THEN WithParents({Dir("./backups", "gadgets")}) ELSE {})
        /\ indexFile \in {NoIndex, createBackupIndex(disk, dirs, NoIndex)}
        /\ (indexFile # NoIndex => g)
    /\ clock = 2
    /\ calls = <<>>
    /\ run = 0
    /\ before = remote

\* The module's top level: loadEnv, loadRepositoryWhitelistForTesting, the test
\* of TEST_REPO (the first whitelist entry), loadUsernameMapping.  The process
\* ends with status 1 when loadEnv fails, when the whitelist has no first entry
\* and when the mapping cannot be loaded.
TestLoad ==
    /\ tpc = "idle"
    /\ lpc = "env"
    /\ LET envLoaded == loadEnv(config, {"GITHUB_TOKEN", "GITHUB_OWNER"})
           wl == loadRepositoryWhitelistForTesting(config.whitelistFile).value
           m == loadUsernameMapping(config.mappingFile)
       IN IF ~envLoaded
          THEN /\ lpc' = "failed" /\ tpc' = "failed" /\ testExit' = 1
               /\ UNCHANGED <<whitelist, mapping>>
          ELSE IF wl = <<>>
          THEN /\ lpc' = "failed" /\ tpc' = "failed" /\ testExit' = 1
               /\ whitelist' = wl
               /\ UNCHANGED mapping
          ELSE IF ~m.ok
          THEN /\ lpc' = "failed" /\ tpc' = "failed" /\ testExit' = 1
               /\ whitelist' = wl
               /\ UNCHANGED mapping
          ELSE /\ lpc' = "loaded" /\ tpc' = "main" /\ testExit' = testExit
               /\ whitelist' = wl
               /\ mapping' = m.value
    /\ run' = run + 1
    /\ UNCHANGED <<subVars, runVars, restVars, config, runExit, before, needsUpdateCount,
                   remote, disk, dirs, indexFile, clock, calls>>

\* The foot of the module when its test fails: main() is not called and the
\* process ends, with status 0, having loaded the configuration and no more.
TestNotStarted ==
    /\ tpc = "main"
    /\ ~IsMainModule(config, "test")
    /\ tpc' = "ended"
    /\ UNCHANGED <<subVars, runVars, restVars, envVars, cfgVars, runExit, before,
                   needsUpdateCount, testExit>>

\* The foot of the module and main: getAllReleases for TEST_REPO; without
\* releases main returns, and an error that reaches main's catch ends the
\* process with status 1.
TestList ==
    /\ tpc = "main"
    /\ IsMainModule(config, "test")
    /\ \E result \in {"ok", "error"} :
        LET repo == whitelist[1]
            fetched == getAllReleases(result, remote[Canon(repo)])
        IN /\ calls' = Append(calls, Call("list", repo, 0, Null, result))
           /\ releases' = IF fetched = Failed THEN <<>> ELSE fetched
           /\ tpc' = IF fetched = Failed THEN "failed"
                     ELSE IF Len(fetched) = 0 THEN "done" ELSE "backup"
           /\ testExit' = IF fetched = Failed THEN ExitFailure ELSE testExit
    /\ UNCHANGED <<subVars, restVars, cfgVars, runExit, before, needsUpdateCount,
                   whitelist, mapping, remote, disk, dirs, indexFile, clock, run,
                   pc, wlIndex, verifiedRepos, repoIndex, backupFile, relIndex,
                   updatedCount, totalProcessed, totalUpdated, totalErrors, indexBuilt, indexCreated>>

\* main: createTestBackup, whose result main does not look at.
TestBackup ==
    /\ tpc = "backup"
    /\ LET repo == whitelist[1]
           file == BackupRecord(GITHUB_OWNER, repo, releases, TypeOfTestBackup, clock, run)
       IN \E outcome \in BackupOutcomes(dirs, file.root, repo) :
           /\ dirs' = createBackupDirectory(dirs, file.root, repo, outcome[1])
           /\ disk' = FileAfter(disk, file, outcome[2])
    /\ tpc' = "test"
    /\ relIndex' = 1
    /\ needsUpdateCount' = 0
    /\ UNCHANGED <<subVars, restVars, cfgVars, runExit, before, testExit,
                   whitelist, mapping, remote, indexFile, clock, calls, run,
                   pc, wlIndex, verifiedRepos, repoIndex, releases, backupFile,
                   updatedCount, totalProcessed, totalUpdated, totalErrors, indexBuilt, indexCreated>>

\* main: one iteration of the loop over the releases, that is one testUpdate,
\* which compares and prints and makes no call.
TestRelease ==
    /\ tpc = "test"
    /\ LET release == releases[relIndex]
           updatedBody == updateUsernamesInReleaseNotes(release.body, mapping)
       IN needsUpdateCount' = IF updatedBody # release.body THEN needsUpdateCount + 1
                              ELSE needsUpdateCount
    /\ IF relIndex < Len(releases)
       THEN relIndex' = relIndex + 1 /\ tpc' = "test"
       ELSE relIndex' = relIndex /\ tpc' = "done"
    /\ UNCHANGED <<subVars, restVars, cfgVars, runExit, before, testExit, envVars,
                   pc, wlIndex, verifiedRepos, repoIndex, releases, backupFile,
                   updatedCount, totalProcessed, totalUpdated, totalErrors, indexBuilt, indexCreated>>

NextTest ==
    \/ TestLoad
    \/ TestNotStarted
    \/ TestList
    \/ TestBackup
    \/ TestRelease

SpecTest == InitTest /\ [][NextTest]_vars

(***************************************************************************)
(* The backup manager on its own: createBackup called time after time,     *)
(* each call at the time of the call before it or later.                   *)
(***************************************************************************)
MaxOps == 3
MaxClock == 3

\* The lists of releases handed to createBackup.
BackupInputs ==
    {<<Release(1, "v1", <<"@", "a">>)>>,
     <<Release(1, "v1", <<"@", "b">>), Release(2, "v2", Null)>>}

InitBackup ==
    /\ SubIdle
    /\ RunIdle
    /\ RestIdle
    /\ TestIdle
    /\ CfgIdle
    /\ EnvIdle
    /\ before = remote

\* createBackup(owner, repo, releases, {type}): createBackupDirectory, then the
\* file named after the time of the call is written; an error of either is
\* caught and null returned.
CreateBackup ==
    /\ run < MaxOps
    /\ \E repo \in RemoteRepos, type \in {"release", "test"}, rels \in BackupInputs :
        LET file == BackupRecord(GITHUB_OWNER, repo, rels, type, clock, run + 1)
        IN \E outcome \in BackupOutcomes(dirs, file.root, repo) :
            /\ dirs' = createBackupDirectory(dirs, file.root, repo, outcome[1])
            /\ disk' = FileAfter(disk, file, outcome[2])
            /\ backupFile' = IF outcome[2] = "written" THEN PathOf(file) ELSE NoFile
            /\ releases' = rels
    /\ run' = run + 1
    /\ UNCHANGED <<subVars, restVars, cfgVars, testVars, runExit, before,
                   whitelist, mapping, remote, indexFile, clock, calls,
                   pc, wlIndex, verifiedRepos, repoIndex, relIndex, updatedCount,
                   totalProcessed, totalUpdated, totalErrors, indexBuilt, indexCreated>>

\* A millisecond passes.
Tick ==
    /\ clock < MaxClock
    /\ clock' = clock + 1
    /\ UNCHANGED <<subVars, restVars, cfgVars, testVars, runExit, before, runVars,
                   whitelist, mapping, remote, disk, dirs, indexFile, calls, run>>

NextBackup ==
    \/ CreateBackup
    \/ Tick

SpecBackup == InitBackup /\ [][NextBackup]_vars

(***************************************************************************)
(* The tools run one after the other: update runs, then a restore.         *)
(***************************************************************************)
MaxRuns == 2

\* The update run has ended and the operator starts it again.
NextRun ==
    /\ pc = "done"
    /\ rpc = "idle"
    /\ run < MaxRuns
    /\ StartRun

\* The whitelists and the releases of the runs that a restore follows.
CycleWhitelists == {<<"gadgets">>, <<"widgets">>, <<"gadgets", "gadgets">>}

CycleRemotes ==
    {rem \in InitialRemotes :
        /\ rem["widgets"][1].body # Null
        /\ rem["widgets"][2].body = <<"a">>
        /\ rem["gadgets"] = <<Release(3, "v1", <<"@", "a">>)>>}

\* The mappings of these runs: those of the single run, and one whose new
\* handle has three segments.
CycleMappings ==
    RunMappings \cup { << <<(<<"a">>), (<<"a", "-", "b", "-", "c">>)>> >> }

InitCycle ==
    /\ SubIdle
    /\ RunIdle
    /\ RestIdle
    /\ TestIdle
    /\ whitelist \in CycleWhitelists
    /\ mapping \in CycleMappings
    /\ remote \in CycleRemotes
    /\ disk = {}
    /\ dirs = {}
    /\ indexFile = NoIndex
    /\ clock = 1
    /\ calls = <<>>
    /\ run = 0
    /\ config \in {[CfgOf(whitelist, mapping) EXCEPT !.preload = p, !.direct = d] :
                      p \in BOOLEAN, d \in Starts({"update", "restore"})}
    /\ lpc = "loaded"
    /\ runExit = 0
    /\ before = remote

NextCycle ==
    \/ Next
    \/ NextRun
    \/ NextRestore

SpecCycle == InitCycle /\ [][NextCycle]_vars

(***************************************************************************)
(* Update runs one after the other over a backup tree that earlier runs    *)
(* may have left, some of them under another GITHUB_OWNER.                 *)
(***************************************************************************)
\* A backup of widgets of the other owner, left by an earlier configuration.
OtherBackup ==
    [root |-> "./backups", owner |-> OtherOwner, repo |-> "widgets", ts |-> 1, run |-> 0,
     repository |-> <<OtherOwner, "widgets">>, total_releases |-> 1,
     releases |-> <<Release(7, "v1", <<"a">>)>>]

\* The trees the runs may start from, files and directories: nothing; the
\* other owner's backup of widgets; and with it the empty directory of widgets
\* of GITHUB_OWNER.
EarlierTrees ==
    {<<{}, {}>>,
     <<{OtherBackup}, WithParents({DirOf("./backups", OtherOwner, "widgets")})>>,
     <<{OtherBackup}, WithParents({DirOf("./backups", OtherOwner, "widgets"),
                                   Dir("./backups", "widgets")})>>}

InitReindex ==
    /\ SubIdle
    /\ RunIdle
    /\ RestIdle
    /\ TestIdle
    /\ whitelist \in {<<"gadgets">>, <<"gadgets", "widgets">>, <<"gadgets", "gadgets">>}
    /\ mapping = << <<(<<"a">>), (<<"b">>)>> >>
    /\ remote \in {rem \in InitialRemotes :
                      /\ rem["widgets"][1].body = <<"@", "a">>
                      /\ rem["widgets"][2].body = <<"a">>
                      /\ rem["gadgets"] # <<>>}
    /\ \E tree \in EarlierTrees :
        /\ disk = tree[1]
        /\ dirs = tree[2]
        /\ indexFile \in {NoIndex, EmptyIndex, createBackupIndex(disk, dirs, NoIndex)}
        /\ (indexFile # NoIndex => BackupsDirExists(dirs))
    /\ clock = 2
    /\ calls = <<>>
    /\ run = 0
    /\ config \in {[CfgOf(whitelist, mapping) EXCEPT !.direct = d] : d \in Starts({"update"})}
    /\ lpc = "loaded"
    /\ runExit = 0
    /\ before = remote

NextReindex ==
    \/ Next
    \/ NextRun

SpecReindex == InitReindex /\ [][NextReindex]_vars

(***************************************************************************)
(* Properties of the substitution.                                         *)
(***************************************************************************)
Keys(m) == {m[k][1] : k \in 1..Len(m)}

\* No entry's new handle is another entry's old handle.
ChainFree(m) == \A i, j \in 1..Len(m) : i # j => m[i][2] # m[j][1]

IsPrefix(p, s) == Len(p) <= Len(s) /\ SubSeq(s, 1, Len(p)) = p

\* The end of the maximal run of handle characters that starts at position i.
RECURSIVE RunEnd(_, _)
RunEnd(s, i) ==
    IF i <= Len(s) /\ s[i] \in HandleChars THEN RunEnd(s, i + 1) ELSE i - 1

\* The handles mentioned in s: after each @, the maximal run of handle characters.
MentionHandles(s) ==
    {SubSeq(s, i + 1, RunEnd(s, i + 1)) : i \in {k \in 1..Len(s) : s[k] = "@"}}

\* new = old - suffix, the suffix a single segment.
AppendsSuffix(old, new) ==
    /\ Len(new) > Len(old) + 1
    /\ SubSeq(new, 1, Len(old) + 1) = old \o <<"-">>
    /\ LastSegment(new) = SubSeq(new, Len(old) + 2, Len(new))

\* C4 as stated: for a mapping in which no new handle is another entry's old
\* handle, substituting the result again gives the same result.
C4_Idempotent ==
    (subPhase = "twice" /\ ChainFree(subMap)) => subAgain = subOut

\* C5 as stated, in the case where no mention of the text has a handle that is a
\* key of the mapping: nothing is rewritten.
C5_UnmappedUntouched ==
    (/\ subPhase # "input"
     /\ subText # Null
     /\ MentionHandles(subText) \cap Keys(subMap) = {})
        => subOut = subText

\* C6: a text without @ is returned unchanged; and where a key of the mapping
\* stands at the start of the text or after a blank (so not after an @), the
\* result is the substitution of what precedes it followed by the key itself.
C6_OnlyAtMentions ==
    (subPhase # "input" /\ subText # Null) =>
        /\ ((\A i \in 1..Len(subText) : subText[i] # "@") => subOut = subText)
        /\ \A key \in Keys(subMap) : \A i \in 1..Len(subText) :
              (OccursAt(subText, i, key) /\ (i = 1 \/ subText[i - 1] = " ")) =>
                  IsPrefix(
                      updateUsernamesInReleaseNotes(SubSeq(subText, 1, i - 1), subMap)
                          \o key,
                      subOut)

\* The substitution rewrote a mention and kept a bare occurrence of the same key.
C6_Witness ==
    /\ subPhase = "once"
    /\ subText = <<"@", "a", " ", "a">>
    /\ subMap = << <<(<<"a">>), (<<"b">>)>> >>
    /\ subOut = <<"@", "b", " ", "a">>

\* C7: applying an entry old -> new leaves every occurrence of @old that is
\* followed by a hyphen and the last segment of new in place: the result is the
\* replacement of what precedes it, then @old, then the replacement of the rest.
\* And for a mapping that is the one entry old -> old-suffix, substituting the
\* result again changes nothing.
C7_DoubleAppendGuard ==
    /\ (subPhase # "input" /\ subText # Null) =>
          \A k \in 1..Len(subMap) : \A i \in 1..Len(subText) :
              LET old == subMap[k][1]
                  new == subMap[k][2]
              IN OccursAt(subText, i, <<"@">> \o old \o <<"-">> \o LastSegment(new)) =>
                    ReplaceEntry(subText, old, new) =
                        ReplaceEntry(SubSeq(subText, 1, i - 1), old, new)
                            \o <<"@">> \o old
                            \o ReplaceEntry(
                                   SubSeq(subText, i + 1 + Len(old), Len(subText)),
                                   old, new)
    /\ (/\ subPhase = "twice"
        /\ Len(subMap) = 1
        /\ AppendsSuffix(subMap[1][1], subMap[1][2]))
          => subAgain = subOut

\* The text @a-b, which already carries the new handle of a -> a-b, came out
\* of the substitution and of its repetition as it was.
C7_Witness ==
    /\ subPhase = "twice"
    /\ subText = <<"@", "a", "-", "b">>
    /\ subMap = << <<(<<"a">>), (<<"a", "-", "b">>)>> >>
    /\ subOut = subText
    /\ subAgain = subText

(***************************************************************************)
(* Properties of the update run.                                           *)
(***************************************************************************)
Range(q) == {q[k] : k \in 1..Len(q)}

UpdateCalls == {k \in 1..Len(calls) : calls[k].op = "update"}

\* C1 as stated: an update call for a repository comes only after a backup of
\* that repository was written in the same run.
C1_BackupBeforeUpdate ==
    \A k \in UpdateCalls :
        \E f \in disk :
            /\ f.root = "./backups" /\ f.repo = calls[k].repo /\ f.run = run
            /\ ~IsEmptyFile(f)

\* The position of the last list call, 0 if there is none.
LastList ==
    LET L == {k \in 1..Len(calls) : calls[k].op = "list"}
    IN IF L = {} THEN 0 ELSE CHOOSE k \in L : \A m \in L : m <= k

\* The update calls made for the repository in process: <<release id, body>>.
RECURSIVE UpdatesFrom(_, _)
UpdatesFrom(cs, k) ==
    IF k > Len(cs) THEN <<>>
    ELSE IF cs[k].op = "update"
         THEN << <<cs[k].repo, cs[k].id, cs[k].body>> >> \o UpdatesFrom(cs, k + 1)
         ELSE UpdatesFrom(cs, k + 1)

\* The calls the claim asks for: one for each of the first n listed releases
\* whose substituted body differs from its body, carrying the substituted body.
RECURSIVE DueUpdates(_, _, _, _)
DueUpdates(repo, rels, k, n) ==
    IF k > n THEN <<>>
    ELSE LET sub == updateUsernamesInReleaseNotes(rels[k].body, mapping)
         IN (IF sub # rels[k].body THEN << <<repo, rels[k].id, sub>> >> ELSE <<>>)
                \o DueUpdates(repo, rels, k + 1, n)

\* The number of listed releases the loop has gone through.
Examined ==
    IF pc = "update" THEN relIndex - 1
    ELSE IF pc = "backup" THEN 0
    ELSE Len(releases)

\* C2: at every point of the run the update calls made for the repository in
\* process are exactly those of the examined releases whose substituted body
\* differs from the listed body; and while the run has made no update call,
\* the updated counts are zero.
C2_UpdateIffChanged ==
    /\ (pc \in {"backup", "update", "list", "summary", "done"} /\ LastList > 0) =>
           UpdatesFrom(calls, LastList + 1) =
               DueUpdates(calls[LastList].repo, releases, 1, Examined)
    /\ (UpdateCalls = {}) => (updatedCount = 0 /\ totalUpdated = 0)

\* A run over widgets that updated the release whose body mentions @a and made
\* no call for the release whose body has no mention.
C2_Witness ==
    /\ pc = "done"
    /\ Len(releases) = 2
    /\ releases[1].body = <<"@", "a">>
    /\ releases[2].body = <<"a">>
    /\ UpdatesFrom(calls, 1) = << <<"widgets", 1, <<"@", "b">> >> >>
    /\ totalUpdated = 1

\* C3 as stated: every call and every backup names a repository by a name that
\* is in the whitelist.
C3_OnlyWhitelistedNames ==
    /\ \A k \in 1..Len(calls) : calls[k].repo \in Range(whitelist)
    /\ \A f \in disk : f.repo \in Range(whitelist)

\* C3 amended: a verify call names a whitelist entry; a list call, an update
\* call and a backup name what the remote answered to the successful
\* verification of a whitelist entry.
C3_OnlyWhitelistedRepositories ==
    LET answered == {Canon(calls[k].repo) :
                        k \in {m \in 1..Len(calls) :
                                  /\ calls[m].op = "get"
                                  /\ calls[m].result = "ok"
                                  /\ calls[m].repo \in Range(whitelist)}}
    IN /\ \A k \in 1..Len(calls) :
            IF calls[k].op = "get"
            THEN calls[k].repo \in Range(whitelist)
            ELSE calls[k].repo \in answered
       /\ \A f \in disk : f.repo \in answered
       /\ Range(verifiedRepos) \subseteq answered

\* A run that listed, backed up and updated one repository while the other
\* repository of the owner, absent from the whitelist, was left alone.
C3_Witness ==
    /\ pc = "done"
    /\ whitelist = <<"widgets">>
    /\ \E k \in UpdateCalls : calls[k].repo = "widgets" /\ calls[k].result = "ok"
    /\ \E f \in disk : f.repo = "widgets"
    /\ \A k \in 1..Len(calls) : calls[k].repo # "gadgets"

(***************************************************************************)
(* Properties of the restore tool.                                         *)
(***************************************************************************)
\* The answers that confirm: yes or y, in any case of the letters.
Affirmative ==
    {<<"y", "e", "s">>, <<"y">>, <<"Y", "E", "S">>, <<"Y">>, <<"Y", "e", "s">>}

\* C8: the restore tool has made no remote call before the operator's
\* confirmation, and makes none at all when the answer to the confirmation
\* prompt is anything but yes or y (in any case of the letters).
C8_NoCallWithoutConfirmation ==
    /\ rpc \in {"idle", "main", "choose", "confirm"} => calls = <<>>
    /\ calls # <<>> => confirm \in Affirmative
    /\ (rpc = "done" /\ confirm \notin Affirmative) => calls = <<>>

\* The operator chose a repository and answered the confirmation with an empty
\* line: the tool ended without a call.
C8_Witness ==
    /\ rpc = "done"
    /\ selectedIndex = Num(0)
    /\ choice = <<"1">>
    /\ confirm = <<>>
    /\ Len(availableBackups[1].backup_files) = 2
    /\ calls = <<>>

\* C9 as stated: the backup file the restore uses is the most recent of the
\* repository's backup files on disk.
C9_RestoresMostRecent ==
    restoreFile # NoFile =>
        \A f \in disk :
            (f.root = restoreFile.root /\ f.repo = restoreFile.repo) => f.ts <= restoreFile.ts

\* The repository the operator selected.
SelectedRepo == availableBackups[selectedIndex.val + 1].repo

\* The calls C10 asks for, for the backed-up releases k..n: for each whose tag a
\* live release carries, one update of that live release with the backed-up body.
RECURSIVE DueRestores(_, _, _, _)
DueRestores(repo, data, k, n) ==
    IF k > n THEN <<>>
    ELSE LET live == {r \in Range(remote[repo]) : r.tag_name = data[k].tag_name}
         IN (IF live = {} THEN <<>>
             ELSE << <<repo, (CHOOSE r \in live : TRUE).id, data[k].body>> >>)
                \o DueRestores(repo, data, k + 1, n)

\* C10: from the moment the live releases are listed, the update calls of the
\* restore are, in order, one for each backed-up release gone through whose tag
\* is live, addressed to the live release and carrying the backed-up body; when
\* the restore ends every backed-up release has been gone through.
C10_RestoreByTag ==
    /\ rpc = "restoring" =>
          UpdatesFrom(calls, 1) = DueRestores(SelectedRepo, backupData, 1, bkIndex - 1)
    /\ (rpc = "done" /\ calls # <<>> /\ calls[1].result = "ok") =>
          UpdatesFrom(calls, 1) = DueRestores(SelectedRepo, backupData, 1, Len(backupData))

\* A restore of two backed-up releases of which v1 is live under a new
\* identifier: v1 was restored to the new identifier with its backed-up body,
\* and v2 after it.
C10_Witness ==
    /\ rpc = "done"
    /\ Len(backupData) = 2
    /\ backupData[1].id = 1
    /\ backupData[1].body = <<"@", "a">>
    /\ Len(calls) = 3
    /\ calls[2] = Call("update", "widgets", 11, <<"@", "a">>, "ok")
    /\ calls[3].id = 2

\* The number of update calls among cs that succeeded.
Succeeded(cs) == Cardinality({k \in 1..Len(cs) : cs[k].op = "update" /\ cs[k].result = "ok"})

\* The backed-up releases among the first n whose tag a listed release carries.
Matched(data, n) == {k \in 1..n : FindByTag(currentReleases, data[k].tag_name) # 0}

\* C11: during a restore the restored count is the number of update calls that
\* succeeded so far, whatever calls failed and whatever entries had no live
\* tag; after a failed call the loop goes on, so that when the restore ends
\* there is one update call for every backed-up release with a live tag.
C11_RestoreFailureIsolated ==
    /\ rpc = "restoring" =>
          /\ restoredCount = Succeeded(calls)
          /\ Len(UpdatesFrom(calls, 1)) = Cardinality(Matched(backupData, bkIndex - 1))
    /\ (rpc = "done" /\ calls # <<>> /\ calls[1].result = "ok") =>
          /\ restoredCount = Succeeded(calls)
          /\ Len(UpdatesFrom(calls, 1)) = Cardinality(Matched(backupData, Len(backupData)))

\* The update of the first backed-up release failed, the second was attempted
\* all the same and succeeded, and one release is counted as restored.
C11_Witness ==
    /\ rpc = "done"
    /\ Len(calls) = 3
    /\ calls[2].op = "update" /\ calls[2].result = "error"
    /\ calls[3].op = "update" /\ calls[3].result = "ok"
    /\ restoredCount = 1

(***************************************************************************)
(* Properties of the update run: failures.                                 *)
(***************************************************************************)
Occurrences(q, x) == Cardinality({k \in 1..Len(q) : q[k] = x})

\* The calls of one operation among cs, in order.
RECURSIVE CallsOf(_, _, _)
CallsOf(cs, op, k) ==
    IF k > Len(cs) THEN <<>>
    ELSE (IF cs[k].op = op THEN <<cs[k]>> ELSE <<>>) \o CallsOf(cs, op, k + 1)

\* The canonical names of the repositories whose verify call succeeded, in order.
RECURSIVE VerifiedNames(_, _)
VerifiedNames(gets, k) ==
    IF k > Len(gets) THEN <<>>
    ELSE (IF gets[k].result = "ok" THEN <<Canon(gets[k].repo)>> ELSE <<>>)
             \o VerifiedNames(gets, k + 1)

\* The repositories the run has started to process.
Started ==
    CASE pc \in {"idle", "verify"} -> 0
      [] pc = "list" -> repoIndex - 1
      [] pc \in {"backup", "update"} -> repoIndex
      [] OTHER -> Len(verifiedRepos)

\* C13: the run verifies every whitelist entry in order whatever the earlier
\* verifications answered; the repositories it goes on with are those whose
\* verification succeeded, and no other: the list calls are, in order, for the
\* verified repositories reached so far, and every backup file and update call
\* is for a repository that was listed.
C13_VerifyFailureExcluded ==
    LET gets == CallsOf(calls, "get", 1)
        lists == CallsOf(calls, "list", 1)
    IN /\ pc = "verify" =>
             [k \in 1..Len(gets) |-> gets[k].repo] = SubSeq(whitelist, 1, wlIndex - 1)
       /\ pc \in {"list", "backup", "update", "summary", "done"} =>
             [k \in 1..Len(gets) |-> gets[k].repo] = whitelist
       /\ verifiedRepos = VerifiedNames(gets, 1)
       /\ [k \in 1..Len(lists) |-> lists[k].repo] = SubSeq(verifiedRepos, 1, Started)
       /\ \A k \in 1..Len(calls) :
             calls[k].op = "update" => \E m \in 1..Len(lists) : lists[m].repo = calls[k].repo
       /\ \A f \in disk : \E m \in 1..Len(lists) : lists[m].repo = f.repo

\* The verification of widgets failed with an error other than a 404, gadgets
\* after it was verified and processed, and widgets was never listed.
C13_Witness ==
    /\ pc = "done"
    /\ whitelist = <<"widgets", "gadgets">>
    /\ calls[1] = Call("get", "widgets", 0, Null, "error")
    /\ calls[2] = Call("get", "gadgets", 0, Null, "ok")
    /\ calls[3] = Call("list", "gadgets", 0, Null, "ok")
    /\ \E k \in 1..Len(calls) : calls[k].op = "update" /\ calls[k].repo = "gadgets"
    /\ \A k \in 1..Len(calls) : calls[k].op \in {"list", "update"} => calls[k].repo = "gadgets"

\* The step the run takes from the loop over the releases: to the next release
\* of the repository, after the last to the next verified repository, and after
\* the last of these to the summary.
GoesOn ==
    pc = "update" =>
        IF relIndex < Len(releases)
        THEN pc' = "update" /\ relIndex' = relIndex + 1 /\ repoIndex' = repoIndex
        ELSE IF repoIndex < Len(verifiedRepos)
        THEN pc' = "list" /\ repoIndex' = repoIndex + 1
        ELSE pc' = "summary"

\* C14: whatever the outcome of an update call, the run goes on with the next
\* release of the repository, then with the next verified repository, then
\* with the summary; a run that reaches the summary after a failed update call
\* has listed every verified repository; and a run that has processed a
\* repository ends with the index step done.
C14_UpdateFailureIsolated ==
    /\ [][GoesOn]_vars
    /\ [](pc \in {"summary", "done"} =>
            \A k \in 1..Len(calls) :
                (calls[k].op = "update" /\ calls[k].result = "error") =>
                    Len(CallsOf(calls, "list", 1)) = Len(verifiedRepos))
    /\ []((pc = "done" /\ verifiedRepos # <<>>) => indexBuilt = 1)

\* The update of the first release of widgets failed; the second release was
\* updated after it, gadgets was processed after widgets, and the index was
\* built.
C14_Witness ==
    /\ pc = "done"
    /\ indexBuilt = 1
    /\ verifiedRepos = <<"widgets", "gadgets">>
    /\ Len(calls) = 7
    /\ calls[4] = Call("update", "widgets", 1, <<"@", "b">>, "error")
    /\ calls[5] = Call("update", "widgets", 2, <<"@", "b">>, "ok")
    /\ calls[6].op = "list" /\ calls[6].repo = "gadgets"
    /\ calls[7].op = "update" /\ calls[7].repo = "gadgets"

(***************************************************************************)
(* Properties of the loading of the configuration.                         *)
(***************************************************************************)
\* A required environment value is missing, or one of the two configuration
\* files is missing or unparseable.
BadConfig ==
    \/ config.GITHUB_TOKEN \in {Null, <<>>, <<" ">>}
    \/ config.GITHUB_OWNER \in {Null, <<>>, <<" ">>}
    \/ config.mappingFile.state \in {"missing", "malformed"}
    \/ config.whitelistFile.state \in {"missing", "malformed"}

\* C16: with a missing required environment value or a missing or unparseable
\* mapping or whitelist file, the update run never gets past the loading of the
\* configuration: main is not entered, no remote call is made and nothing is
\* written to the backup tree; and when the loading has failed the exit status
\* is not zero.
C16_FatalConfiguration ==
    /\ BadConfig =>
          /\ lpc \in {"env", "mapping", "whitelist", "failed"}
          /\ pc = "idle"
          /\ calls = <<>>
          /\ disk = {} /\ dirs = {} /\ indexFile = NoIndex
    /\ lpc = "failed" => runExit # 0

\* The environment and the mapping file are in order and the whitelist file is
\* missing: the process has ended with status 1 without a call.
C16_Witness ==
    /\ lpc = "failed"
    /\ runExit = 1
    /\ config.envFile = "ok"
    /\ config.GITHUB_TOKEN = <<"x">>
    /\ config.GITHUB_OWNER = <<"x">>
    /\ config.mappingFile.state = "ok"
    /\ config.whitelistFile.state = "missing"
    /\ calls = <<>>
    /\ disk = {}

\* C17: once the configuration is loaded the exit status of the update run is
\* zero, at every point and so at its end, whatever calls and backups failed; a
\* status other than zero comes from the loading of the configuration alone,
\* before main is entered.
C17_ZeroExitAfterLoading ==
    /\ lpc = "loaded" => runExit = 0
    /\ runExit # 0 => (lpc = "failed" /\ pc = "idle" /\ calls = <<>>)

\* A run that ended with status zero after a verification, a backup and an
\* update had failed.
C17_Witness ==
    /\ pc = "done"
    /\ runExit = 0
    /\ \E k \in 1..Len(calls) : calls[k].op = "get" /\ calls[k].result = "error"
    /\ \E k \in 1..Len(calls) : calls[k].op = "update" /\ calls[k].result = "error"
    /\ backupFile = NoFile
    /\ disk = {}
    /\ indexBuilt = 1

(***************************************************************************)
(* Properties of the test harness.                                         *)
(***************************************************************************)
\* What is on disk outside ./test-backups.
OutsideTestBackups(d) == {f \in d : f.root # "./test-backups"}

\* A step that changes nothing on the remote and nothing on disk but, at most,
\* by one file under ./test-backups and the directory it lies in.
DryStep ==
    /\ remote' = remote
    /\ indexFile' = indexFile
    /\ OutsideTestBackups(disk') = OutsideTestBackups(disk)
    /\ OutsideTestBackups(dirs') = OutsideTestBackups(dirs)
    /\ disk \subseteq disk'
    /\ Cardinality(disk') <= Cardinality(disk) + 1

\* C15: the test harness makes no remote call other than list calls, no step
\* of it changes a release on the remote, and the only file it writes is one
\* test backup under ./test-backups: ./backups and the index stay as they were.
C15_DryRunNeverMutates ==
    /\ [][DryStep]_vars
    /\ [](\A k \in 1..Len(calls) : calls[k].op = "list")
    /\ [](Cardinality({f \in disk : f.root = "./test-backups"}) <= 1)

\* The harness has gone through the two releases of widgets, of which one needs
\* an update: it listed, wrote a test backup, and left the remote and ./backups
\* as they were.
C15_Witness ==
    /\ tpc = "done"
    /\ whitelist[1] = "widgets"
    /\ needsUpdateCount = 1
    /\ calls = <<Call("list", "widgets", 0, Null, "ok")>>
    /\ \E f \in disk : f.root = "./test-backups" /\ f.repo = "widgets" /\ f.total_releases = 2
    /\ GadgetsBackup \in disk
    /\ remote = before

(***************************************************************************)
(* Properties of the backup manager.                                       *)
(***************************************************************************)
\* C18 as stated: no step removes or alters a backup file, and every call of
\* createBackup that returns a path has added exactly one file.
C18_WriteOnce ==
    [][/\ disk \subseteq disk'
       /\ (run' # run /\ backupFile' # NoFile) =>
              Cardinality(disk') = Cardinality(disk) + 1]_vars

\* The successful update calls of the run for release id of repo that came
\* before the latest list call.
UpdatedBeforeListing(repo, id) ==
    {j \in 1..(LastList - 1) :
        /\ calls[j].op = "update" /\ calls[j].result = "ok"
        /\ calls[j].repo = repo /\ calls[j].id = id}

\* The body release k of repo had on the remote when the latest list call was
\* made: the body it had when the run began, or the body of the last successful
\* update call an earlier pass of the run over the repository made for it.
BodyWhenListed(repo, k) ==
    LET ups == UpdatedBeforeListing(repo, before[repo][k].id)
    IN IF ups = {} THEN before[repo][k].body
       ELSE calls[CHOOSE j \in ups : \A i \in ups : i <= j].body

\* The backup of the repository in process, loaded back, is a record of the
\* repository whose total_releases and whose number of entries are the number
\* of releases the repository has, each entry with the tag of its release.
LoadedBackRecord ==
    LET data == loadBackupData(disk, backupFile)
        repo == verifiedRepos[repoIndex]
    IN /\ data.repository = <<GITHUB_OWNER, repo>>
       /\ data.total_releases = Len(before[repo])
       /\ Len(data.releases) = Len(before[repo])
       /\ \A k \in 1..Len(before[repo]) :
             data.releases[k].tag_name = before[repo][k].tag_name

\* C19 as stated: while the releases of a repository are gone through, the
\* backup file written for them, loaded back, has total_releases equal to the
\* number of releases and a releases list of that length in which every entry
\* carries, in order, the tag of its release and the body the release had
\* before any update call of the run.
C19_PreMutationBody ==
    (pc = "update" /\ backupFile # NoFile) =>
        /\ LoadedBackRecord
        /\ \A k \in 1..Len(before[verifiedRepos[repoIndex]]) :
              loadBackupData(disk, backupFile).releases[k].body =
                  before[verifiedRepos[repoIndex]][k].body

\* C19: while the releases of a repository are gone through, the backup file
\* written for them, loaded back, has total_releases equal to the number of
\* releases and a releases list of that length in which every entry carries,
\* in order, the tag of its release and the body the release had on the remote
\* when it was listed: the body it had before any update call of the run,
\* unless an earlier pass of the same run over the same repository rewrote it,
\* and then the rewritten body.
C19_BackupRoundTrip ==
    (pc = "update" /\ backupFile # NoFile) =>
        /\ LoadedBackRecord
        /\ \A k \in 1..Len(before[verifiedRepos[repoIndex]]) :
              loadBackupData(disk, backupFile).releases[k].body =
                  BodyWhenListed(verifiedRepos[repoIndex], k)
        /\ (Occurrences(SubSeq(verifiedRepos, 1, repoIndex - 1),
                        verifiedRepos[repoIndex]) = 0) =>
              \A k \in 1..Len(before[verifiedRepos[repoIndex]]) :
                  loadBackupData(disk, backupFile).releases[k].body =
                      before[verifiedRepos[repoIndex]][k].body

\* The whitelist names gadgets twice: the first pass rewrote the body of its
\* release from "@a" to "@b", and the backup of the second pass, loaded back,
\* holds "@b", the body as the second list call returned it.
C19_Witness ==
    /\ pc = "update"
    /\ backupFile # NoFile
    /\ verifiedRepos = <<"gadgets", "gadgets">>
    /\ repoIndex = 2
    /\ before["gadgets"][1].body = <<"@", "a">>
    /\ loadBackupData(disk, backupFile).total_releases = 1
    /\ loadBackupData(disk, backupFile).releases[1].tag_name = "v1"
    /\ loadBackupData(disk, backupFile).releases[1].body = <<"@", "b">>

(***************************************************************************)
(* Properties of update runs followed by a restore.                        *)
(***************************************************************************)
\* The backup files the latest update run wrote for a repository, seen from the
\* restore that follows it.
LatestBackups(repo) == {f \in disk : f.repo = repo /\ f.run = run - 1}

\* C12 as stated: when a confirmed restore of a repository has ended, all its
\* remote calls having succeeded and every backed-up tag being live, and the
\* latest update run processed and backed up the repository, the body of each
\* release of the repository is the body it had when that run started.
C12_RestoreUndoesLatestRun ==
    (/\ rpc = "done"
     /\ pc = "done"
     /\ restoreFile # NoFile
     /\ calls # <<>>
     /\ \A k \in 1..Len(calls) : calls[k].result = "ok"
     /\ Matched(backupData, Len(backupData)) = 1..Len(backupData)
     /\ Occurrences(verifiedRepos, SelectedRepo) >= 1
     /\ Cardinality(LatestBackups(SelectedRepo)) = Occurrences(verifiedRepos, SelectedRepo))
    => \A k \in 1..Len(remote[SelectedRepo]) :
           remote[SelectedRepo][k].body = before[SelectedRepo][k].body

\* C20: no step of an update run or of a restore adds, removes or reorders a
\* release of any repository, or changes the identifier or the tag of one: the
\* body is all that a step changes of the remote.
C20_OnlyBodyChanges ==
    [][\A r \in RemoteRepos :
          /\ Len(remote'[r]) = Len(remote[r])
          /\ \A k \in 1..Len(remote[r]) :
                /\ remote'[r][k].id = remote[r][k].id
                /\ remote'[r][k].tag_name = remote[r][k].tag_name]_vars

\* An update run has rewritten the body of the release of gadgets and a restore
\* has written the backed-up body back: the release has its identifier and tag.
C20_Witness ==
    /\ rpc = "done"
    /\ restoredCount = 1
    /\ totalUpdated = 1
    /\ restoreFile.repo = "gadgets"
    /\ remote["gadgets"] = <<Release(3, "v1", <<"@", "a">>)>>
    /\ before["gadgets"] = <<Release(3, "v1", <<"@", "a">>)>>

(***************************************************************************)
(* Properties of the loading of the configuration by the test harness.     *)
(***************************************************************************)
\* C21: when the whitelist file is missing and the rest of the configuration is
\* in order, the test harness loads the empty list and does not end with the
\* status 1 that the update run ends with on a missing whitelist.
C21_MissingWhitelistTolerated ==
    (/\ tpc # "idle"
     /\ loadEnv(config, {"GITHUB_TOKEN", "GITHUB_OWNER"})
     /\ config.mappingFile.state = "ok"
     /\ config.whitelistFile.state = "missing")
    => /\ whitelist = <<>>
       /\ testExit # ExitFailure

(***************************************************************************)
(* Properties of the selection prompt of the restore tool.                 *)
(***************************************************************************)
\* The operator's selection is not one the tool can restore from: it is not a
\* number, it is not a position of the list, or the repository at that position
\* has no backup file.
InvalidSelection ==
    \/ selectedIndex.nan
    \/ selectedIndex.val < 0
    \/ selectedIndex.val >= Len(availableBackups)
    \/ Len(availableBackups[selectedIndex.val + 1].backup_files) = 0

\* C29: when the restore tool has listed repositories and ended after a
\* selection that is not an integer in 1..N or that names a repository without
\* a backup file, it has made no remote call and has ended normally, with exit
\* status zero, not through its fatal-error handler.
C29_InvalidSelectionRejected ==
    (/\ rpc \in {"done", "fatal"}
     /\ Len(availableBackups) > 0
     /\ InvalidSelection)
    => /\ calls = <<>>
       /\ rpc = "done"
       /\ exitCode = 0

(***************************************************************************)
(* Properties of the backup index of the update run.                       *)
(***************************************************************************)
\* C22 as stated: a completed update run has called createBackupIndex exactly
\* once, whatever the whitelist, and no run has called it before its end.
C22_IndexBuiltOnce ==
    /\ pc = "done" => indexBuilt = 1
    /\ pc \in {"verify", "list", "backup", "update", "summary"} => indexBuilt = 0

\* C22 amended: a completed update run in which a repository passed the
\* verification has called createBackupIndex exactly once, after the last
\* verified repository was processed; a completed run in which none passed has
\* not called it; and no run has called it before its end.
C22_IndexBuiltOnceIfVerified ==
    /\ pc = "done" => indexBuilt = (IF verifiedRepos = <<>> THEN 0 ELSE 1)
    /\ pc \in {"verify", "list", "backup", "update", "summary"} => indexBuilt = 0
    /\ (pc \in {"summary", "done"} /\ verifiedRepos # <<>>) =>
          /\ repoIndex = Len(verifiedRepos)
          /\ Len(CallsOf(calls, "list", 1)) = Len(verifiedRepos)

\* A completed run over two verified repositories: both were listed and the
\* index was built once, after them.
C22_Witness ==
    /\ pc = "done"
    /\ Len(verifiedRepos) = 2
    /\ repoIndex = 2
    /\ indexBuilt = 1
    /\ indexFile \notin {NoIndex, EmptyIndex}
    /\ totalUpdated > 0

\* The (owner, repository) directories under ./backups.
RepoDirs == {x \in dirs : x.root = "./backups" /\ x.owner # "" /\ x.repo # ""}

\* The paths of the backup files on disk under ./backups for a repository of
\* an owner.
PathsOnDisk(owner, repo) ==
    {PathOf(f) : f \in {g \in disk : /\ g.root = "./backups"
                                    /\ g.owner = owner /\ g.repo = repo}}

\* The index lists the tree: exactly one entry for each (owner, repository)
\* directory under ./backups and no other entry, each entry listing exactly the
\* backup files on disk of its repository, each once.
ListsTheTree(index) ==
    /\ \A x \in RepoDirs :
          Cardinality({k \in 1..Len(index) :
                          index[k].owner = x.owner /\ index[k].repo = x.repo}) = 1
    /\ Len(index) = Cardinality(RepoDirs)
    /\ \A k \in 1..Len(index) :
          /\ DirOf("./backups", index[k].owner, index[k].repo) \in dirs
          /\ Range(index[k].backup_files) = PathsOnDisk(index[k].owner, index[k].repo)
          /\ Len(index[k].backup_files) =
                 Cardinality(PathsOnDisk(index[k].owner, index[k].repo))

\* The step of an update run that builds the index.
BuildStep == pc = "summary" /\ pc' = "done"

\* A build of the index over a tree that the index already lists, that is, a
\* tree that has not changed since the index was written, leaves the same
\* repository and file listing.
RebuildStep ==
    (/\ BuildStep
     /\ indexFile \notin {NoIndex, EmptyIndex, IndexWithoutKey}
     /\ ListsTheTree(indexFile)
     /\ indexCreated') =>
        indexFile' = indexFile

\* C23: when the build of the index at the end of a completed update run has
\* written the index, the index has exactly one entry for each (owner,
\* repository) directory under ./backups, each entry lists exactly the backup
\* files of its repository on disk, those of earlier runs and every backup file
\* of the run, and total_repositories is the number of entries; and a build
\* over a tree that has not changed since the index was written leaves the
\* same listing.
C23_IndexCoversDisk ==
    /\ []((pc = "done" /\ indexBuilt = 1 /\ indexCreated) =>
             /\ ListsTheTree(indexFile)
             /\ \A f \in disk :
                   (f.root = "./backups" /\ f.run = run) =>
                       \E k \in 1..Len(indexFile) :
                           /\ indexFile[k].owner = f.owner
                           /\ indexFile[k].repo = f.repo
                           /\ PathOf(f) \in Range(indexFile[k].backup_files)
             /\ TotalRepositories(dirs, indexFile, 1) = Len(indexFile))
    /\ [][RebuildStep]_vars

\* The second run over gadgets has built the index again over the tree as the
\* first run left it and as the index of the first run lists it: its list call
\* failed, so it made no backup.  The index has the entry of gadgets with the
\* backup file of the first run, the entry of widgets of the same owner,
\* without a file, and the entry of widgets of another owner, with the backup
\* file an earlier configuration left.
C23_Witness ==
    /\ pc = "done"
    /\ run = 2
    /\ indexBuilt = 1
    /\ indexCreated
    /\ whitelist = <<"gadgets">>
    /\ calls[2].op = "list" /\ calls[2].result = "error"
    /\ Len(indexFile) = 3
    /\ indexFile[1].owner = GITHUB_OWNER /\ indexFile[1].repo = "gadgets"
    /\ Len(indexFile[1].backup_files) = 1
    /\ indexFile[2].owner = GITHUB_OWNER /\ indexFile[2].repo = "widgets"
    /\ indexFile[2].backup_files = <<>>
    /\ indexFile[3].owner = OtherOwner /\ indexFile[3].repo = "widgets"
    /\ Len(indexFile[3].backup_files) = 1
    /\ \E f \in disk : f.run = 1 /\ f.owner = GITHUB_OWNER /\ f.repo = "gadgets"

(***************************************************************************)
(* Properties of the counters of the update run.                           *)
(***************************************************************************)
\* The number of releases the list calls among cs from position k on brought
\* back: each of them goes through updateRelease.
RECURSIVE ListedBy(_, _)
ListedBy(cs, k) ==
    IF k > Len(cs) THEN 0
    ELSE (IF cs[k].op = "list" /\ cs[k].result = "ok"
          THEN Len(FirstPage(remote[Canon(cs[k].repo)]))
          ELSE 0) + ListedBy(cs, k + 1)

\* C24: when the loop over the verified repositories is over, totalProcessed
\* is the number of releases listed, all of which were examined, and
\* totalUpdated is the number of update calls that succeeded; at every point of
\* the run the update calls that succeeded are those counted in totalUpdated
\* and, for the repository in process, in updatedCount, updatedCount is at
\* most the number of releases examined of that repository, and totalUpdated
\* is at most totalProcessed.
C24_CountersExact ==
    /\ pc \in {"summary", "done"} =>
          /\ totalProcessed = ListedBy(calls, 1)
          /\ totalUpdated = Succeeded(calls)
    /\ Succeeded(calls) = totalUpdated + (IF pc = "update" THEN updatedCount ELSE 0)
    /\ pc = "update" => (updatedCount <= relIndex - 1 /\ relIndex <= Len(releases))
    /\ totalUpdated <= totalProcessed

\* A completed run over widgets and gadgets: three releases processed, of
\* which one was updated, one update call failed and one needed no change.
C24_Witness ==
    /\ pc = "done"
    /\ Len(verifiedRepos) = 2
    /\ totalProcessed = 3
    /\ totalUpdated = 1
    /\ Cardinality(UpdateCalls) = 2
    /\ Succeeded(calls) = 1

\* C25: the summary of an update run in which a list call or an update call
\* failed does not report zero errors.
C25_FailuresCounted ==
    (/\ pc \in {"summary", "done"}
     /\ \E k \in 1..Len(calls) :
           calls[k].op \in {"list", "update"} /\ calls[k].result = "error")
    => totalErrors > 0

(***************************************************************************)
(* Properties of a failed listing in the update run.                       *)
(***************************************************************************)
\* A step of the update run that makes a list call.
ListStep == Len(calls') = Len(calls) + 1 /\ calls'[Len(calls')].op = "list"

\* What main does with a repository that has no release: nothing is added to
\* the counters, the error counter included, nothing is written to the backup
\* tree, the remote is not changed, and the next repository, or the summary
\* after the last, follows.
AsWithoutReleases ==
    /\ releases' = <<>>
    /\ totalProcessed' = totalProcessed
    /\ totalUpdated' = totalUpdated
    /\ totalErrors' = totalErrors
    /\ disk' = disk /\ dirs' = dirs /\ remote' = remote
    /\ IF repoIndex < Len(verifiedRepos)
       THEN pc' = "list" /\ repoIndex' = repoIndex + 1
       ELSE pc' = "summary" /\ repoIndex' = repoIndex

\* C27: a list call that fails during an update run is followed by what follows
\* a list call that brings back no release; and no backup and no update call is
\* made for a repository between a failed list call and the next list call.
C27_FailedListingAsEmpty ==
    /\ [][(pc = "list" /\ ListStep /\ calls'[Len(calls')].result = "error")
             => AsWithoutReleases]_vars
    /\ [][(pc = "list" /\ ListStep /\ calls'[Len(calls')].result = "ok"
              /\ remote[Canon(verifiedRepos[repoIndex])] = <<>>)
             => AsWithoutReleases]_vars
    /\ []((pc # "idle" /\ LastList > 0 /\ calls[LastList].result = "error") =>
             /\ LastList = Len(calls)
             /\ pc \in {"list", "summary", "done"})

\* A completed run over gadgets and widgets in which the listing of gadgets
\* failed: gadgets has no backup and no update, widgets was processed after it,
\* and the error counter is zero.
C27_Witness ==
    /\ pc = "done"
    /\ verifiedRepos = <<"gadgets", "widgets">>
    /\ Len(calls) >= 4
    /\ calls[3].op = "list" /\ calls[3].repo = "gadgets" /\ calls[3].result = "error"
    /\ calls[4].op = "list" /\ calls[4].repo = "widgets" /\ calls[4].result = "ok"
    /\ remote["gadgets"] # <<>>
    /\ \A f \in disk : f.repo # "gadgets"
    /\ Dir("./backups", "gadgets") \notin dirs
    /\ totalProcessed = 2
    /\ totalErrors = 0

(***************************************************************************)
(* Properties of a second update run.                                      *)
(***************************************************************************)
\* The bodies the current run started from are all results of the substitution
\* under the run's mapping, which is what an earlier run with the same mapping
\* leaves when each of its calls succeeded.
StartedFromSubstituted ==
    \A r \in RemoteRepos :
        \A k \in 1..Len(before[r]) :
            \E b \in RunBodies :
                before[r][k].body = updateUsernamesInReleaseNotes(b, mapping)

\* C26: a second update run with the same whitelist and the same mapping, in
\* which no new handle is another entry's old handle, that follows a run which
\* left every body substituted, makes no update call and changes no body.
C26_RerunSafe ==
    (/\ run = MaxRuns
     /\ rpc = "idle"
     /\ ChainFree(mapping)
     /\ StartedFromSubstituted)
    => /\ UpdateCalls = {}
       /\ remote = before

(***************************************************************************)
(* Termination of the update run.                                          *)
(***************************************************************************)
\* The backup files of a repository written in the current run.
WrittenInRun(repo) == {f \in disk : f.repo = repo /\ f.run = run}

\* C28: every update run reaches its end, the final summary or the fatal exit
\* of the loading of the configuration (a process whose module ends without
\* calling main() ends there, with no run); and at every point it has made at most
\* one verify call per whitelist entry, at most one list call per verified
\* repository, at most one backup per list call of a repository, and at most
\* one update call per listed release.
C28_RunTerminates ==
    /\ <>(lpc \in {"failed", "ended"} \/ pc = "done")
    /\ [](/\ Len(CallsOf(calls, "get", 1)) <= Len(whitelist)
          /\ Len(CallsOf(calls, "list", 1)) <= Len(verifiedRepos)
          /\ \A r \in RemoteRepos :
                Cardinality(WrittenInRun(r)) <= Occurrences(verifiedRepos, r)
          /\ Cardinality(UpdateCalls) <= ListedBy(calls, 1))

\* A run over two whitelist entries that has reached its end having made two
\* verify calls, two list calls, two backups and three update calls, of which
\* one failed.
C28_Witness ==
    /\ pc = "done"
    /\ Len(whitelist) = 2
    /\ Len(CallsOf(calls, "get", 1)) = 2
    /\ Len(CallsOf(calls, "list", 1)) = 2
    /\ Cardinality(WrittenInRun("widgets")) + Cardinality(WrittenInRun("gadgets")) = 2
    /\ Cardinality(UpdateCalls) = 3
    /\ ListedBy(calls, 1) = 3
    /\ Succeeded(calls) = 2

====
